---- MODULE Spec2Model ----
(***************************************************************************)
(* Model of bw_functional: multifunctional processes, their functions and  *)
(* production edges, and the allocation engine that writes allocation      *)
(* factors onto the functions (allocation.py, node_classes.py).            *)
(*                                                                         *)
(* Numbers.  Python floats are binary floating point with round-half-even: *)
(* every division and every addition rounds.  A float is modelled as a     *)
(* pair <<m, e>> of value m * 2^e, normalised so that m = 0 (and e = 0) or *)
(* 2^(MantBits-1) <= |m| < 2^MantBits.  MantBits is a bound of the model   *)
(* (binary64 has 53 bits); exponents are unbounded, as overflow and        *)
(* underflow play no role in the amounts modelled.  An absent or None      *)
(* value is the empty tuple <<>>.                                          *)
(***************************************************************************)
EXTENDS Integers, Sequences, FiniteSets, TLC

\* Width of a float's mantissa in the model.
MantBits == 7
\* Largest number of functions a process has in the initial states.
MaxFuncs == 3
\* Largest number of node and edge operations made on a collection.
MaxOps == 2

RECURSIVE Pow2(_)
Pow2(n) == IF n <= 0 THEN 1 ELSE 2 * Pow2(n - 1)

Abs(x) == IF x < 0 THEN -x ELSE x

Min(a, b) == IF a <= b THEN a ELSE b

\* The element of a set of one element.  The({e(x) : x \in {v}}) is e(v) with v
\* computed once, however often e reads x: the value a local name is bound to.
The(set) == CHOOSE element \in set : TRUE

FZero == <<0, 0>>

\* A mantissa m has HalfRadix <= |m| < Radix.
Radix == Pow2(MantBits)

HalfRadix == Pow2(MantBits - 1)

\* Scales a/d by powers of two until HalfRadix <= a/d < Radix.
RECURSIVE Normalise(_, _, _)
Normalise(a, d, e) ==
    IF a >= d * Radix THEN Normalise(a, 2 * d, e + 1)
    ELSE IF a < d * HalfRadix THEN Normalise(2 * a, d, e - 1)
    ELSE <<a, d, e>>

\* The mantissa and exponent of a normalised ratio nd = <<a, d, e>> rounded to the
\* nearest, ties to even, with the sign s.
Rounded(nd, s) ==
    LET q  == nd[1] \div nd[2]
        r  == nd[1] % nd[2]
        up == (2 * r > nd[2]) \/ (2 * r = nd[2] /\ q % 2 = 1)
        m  == IF up THEN q + 1 ELSE q
    IN  IF m = Radix
        THEN <<s * HalfRadix, nd[3] + 1>>
        ELSE <<s * m, nd[3]>>

\* The float nearest to (n / d) * 2^e0, ties to even; d > 0.
RoundRat(n, d, e0) ==
    The({IF v[1] = 0 THEN FZero
         ELSE The({Rounded(nd, IF v[1] < 0 THEN -1 ELSE 1) :
                   nd \in {Normalise(Abs(v[1]), v[2], v[3])}}) :
         v \in {<<n, d, e0>>}})

\* float(k) for an integer k.
FromInt(k) == RoundRat(k, 1, 0)

\* x / y on floats (y # 0).
FDiv(x, y) ==
    The({IF v[2][1] < 0 THEN RoundRat(-v[1][1], -v[2][1], v[1][2] - v[2][2])
         ELSE RoundRat(v[1][1], v[2][1], v[1][2] - v[2][2]) :
         v \in {<<x, y>>}})

\* x + y on floats.
FAdd(x, y) ==
    The({IF v[1][1] = 0 THEN v[2]
         ELSE IF v[2][1] = 0 THEN v[1]
         ELSE RoundRat(v[1][1] * Pow2(v[1][2] - Min(v[1][2], v[2][2]))
                           + v[2][1] * Pow2(v[2][2] - Min(v[1][2], v[2][2])),
                       1, Min(v[1][2], v[2][2])) :
         v \in {<<x, y>>}})

\* x * y on floats.
FMul(x, y) ==
    The({RoundRat(v[1][1] * v[2][1], 1, v[1][2] + v[2][2]) : v \in {<<x, y>>}})

FAbs(x) == <<Abs(x[1]), x[2]>>

FOne == FromInt(1)

\* sum(list) of Python: a left-to-right fold of + starting at 0.
RECURSIVE FSum(_)
FSum(s) ==
    The({IF v = <<>> THEN FZero ELSE FAdd(FSum(SubSeq(v, 1, Len(v) - 1)), v[Len(v)]) :
         v \in {s}})

\* None, and the value of an absent key, among strings.
NONE == "None"

\* The value of `allocation` of a process written without that key.
ABSENT == "<absent>"

\* The names of the properties a function may carry.
PropLabels == {"mass", "equal"}

\* The stored value of a property: kind "missing" (no such key), "record" (the
\* structured form {amount, normalize}), or a bare "float", "int" or "bool"
\* (amount 1/0 for True/False).  normalize is "true", "false" or "absent".
PropVal(kind, amount, normalize) == [kind |-> kind, amount |-> amount, normalize |-> normalize]

Missing == PropVal("missing", 0, "absent")

VARIABLES
    procs,      \* process nodes: id -> [type, allocation, skip_allocation]
    fns,        \* function nodes: id -> [processor, type, properties,
                \*                        allocation_factor, substitution_factor]
    excs,       \* the exchanges: records [id, input, output, amount, type]
    metadata,   \* the collection's metadata: [default_allocation]
    call,       \* the last call made on the program and what it returned
    before      \* the function nodes as they were when that call was made

vars == <<procs, fns, excs, metadata, call, before>>

\* The ids of the set S in ascending order (the order of a query's rows).
RECURSIVE Ascending(_)
Ascending(S) ==
    IF S = {} THEN <<>>
    ELSE LET m == CHOOSE x \in S : \A y \in S : x <= y
         IN  <<m>> \o Ascending(S \ {m})

\* MFActivity.production(): the production exchanges whose output is p.
production(X, p) == {x \in X : x.output = p /\ x.type = "production"}

\* Process.functional
functional(X, p) == Cardinality(production(X, p)) > 0

\* Process.multifunctional
multifunctional(X, p) == Cardinality(production(X, p)) > 1

\* Process.functions(): the inputs of the production exchanges, in row order.
functions(X, p) ==
    LET ids == Ascending({x.id : x \in production(X, p)})
    IN  [i \in 1..Len(ids) |-> (CHOOSE x \in X : x.id = ids[i]).input]

\* Function.processing_edge: the production exchanges into f.
processing_edges(X, f) == {x \in X : x.input = f /\ x.type = "production"}

processing_edge(X, f) == CHOOSE x \in processing_edges(X, f) : TRUE

\* Function.deduct_type
Function_deduct_type(X, f) ==
    IF processing_edges(X, f) = {} THEN "orphaned_product"
    ELSE IF processing_edge(X, f).amount >= 0 THEN "product"
    ELSE "waste"

\* What a call gives back: the exception it raised ("" if none) and its value.
Returned(v) == [raised |-> "", value |-> v]
Raised(e) == [raised |-> e, value |-> <<>>]

\* `not prop` of Python for a stored property value.
Falsy(prop) ==
    \/ prop.kind = "missing"
    \/ prop.kind \in {"float", "int", "bool"} /\ prop.amount = 0

\* get_property_value with the sign of the edge amount kept (no abs).
get_property_value_no_abs(F, X, f, property_label) ==
    LET props == F[f].properties
        prop  == IF property_label \in DOMAIN props THEN props[property_label] ELSE Missing
    IN  IF \A l \in DOMAIN props : props[l].kind = "missing" THEN Raised("KeyError")
        ELSE IF Falsy(prop) THEN Raised("KeyError")
        ELSE IF prop.kind = "float" THEN Returned(FromInt(prop.amount))
        ELSE IF prop.kind # "record" THEN Raised("AttributeError")
        ELSE IF prop.normalize = "true"
             THEN Returned(FMul(FromInt(processing_edge(X, f).amount), FromInt(prop.amount)))
             ELSE Returned(FromInt(prop.amount))

\* get_property_value(function, property_label)
get_property_value(F, X, f, property_label) ==
    LET props == F[f].properties
        prop  == IF property_label \in DOMAIN props THEN props[property_label] ELSE Missing
    IN  IF \A l \in DOMAIN props : props[l].kind = "missing" THEN Raised("KeyError")
        ELSE IF Falsy(prop) THEN Raised("KeyError")
        ELSE IF prop.kind = "float" THEN Returned(FromInt(prop.amount))
        ELSE IF prop.kind # "record" THEN Raised("AttributeError")
        ELSE IF prop.normalize = "true"
             THEN Returned(FMul(FAbs(FromInt(processing_edge(X, f).amount)), FromInt(prop.amount)))
             ELSE Returned(FromInt(prop.amount))

\* The registry of strategies: name -> getter.  property_allocation(label) is the
\* getter of a property-based strategy.
property_allocation(property_label) == [getter |-> "property", property_label |-> property_label]

\* The registry with the getter of `manual` registered under both names.
allocation_strategies_both_manual ==
    [equal |-> [getter |-> "manual", property_label |-> ""],
     manual |-> [getter |-> "manual", property_label |-> ""]]

allocation_strategies ==
    [equal |-> [getter |-> "equal", property_label |-> ""],
     manual |-> [getter |-> "manual", property_label |-> ""]]

\* The getter of a strategy applied to function f.
getter(strategy, F, X, f) ==
    IF strategy.getter = "equal" THEN Returned(FOne)
    ELSE IF strategy.getter = "manual"
         THEN Returned(IF F[f].allocation_factor = <<>> THEN FOne ELSE F[f].allocation_factor)
    ELSE get_property_value(F, X, f, strategy.property_label)

\* Function.save() of a stored function whose allocation factor alone was set:
\* the type is deduced again and the record written; neither the property of the
\* processor's strategy nor the substitution flag differs from the stored one.
save_allocation_factor(F, X, f, factor) ==
    [F EXCEPT ![f].allocation_factor = factor, ![f].type = Function_deduct_type(X, f)]

\* Function.save() of a stored function, line 417: deduct_type reads the processing
\* edge, which raises ValidityError for a function with several production edges;
\* nothing is written then.
save_raises(X, f) ==
    IF Cardinality(processing_edges(X, f)) > 1 THEN "ValidityError" ELSE ""

\* The partition with every function taken into the allocation set, substituted or not.
RECURSIVE partition_keeps_substituted(_, _, _, _)
partition_keeps_substituted(F, X, fs, i) ==
    IF i = 0 THEN [fns |-> F, functions |-> <<>>, raised |-> ""]
    ELSE The({
             [done EXCEPT !.functions = Append(done.functions, fs[i])] :
             done \in {partition_keeps_substituted(F, X, fs, i - 1)}})

\* generic_allocation, lines 52-59, over the first i functions of the list fs: a
\* substituted function with a positive factor is reset to 0.0 and saved, a
\* function that is not substituted joins the allocation set, and reading the
\* factor of a substituted function that has none raises KeyError.  Gives the
\* table as written so far, the allocation set and the exception raised.
RECURSIVE partition(_, _, _, _)
partition(F, X, fs, i) ==
    IF i = 0 THEN [fns |-> F, functions |-> <<>>, raised |-> ""]
    ELSE The({
             LET fn == done.fns[fs[i]]
             IN  IF done.raised # "" THEN done
                 ELSE IF fn.substitution_factor > 0
                 THEN IF fn.allocation_factor = <<>>
                      THEN [done EXCEPT !.raised = "KeyError"]
                      ELSE IF fn.allocation_factor[1] > 0
                      THEN IF save_raises(X, fs[i]) # ""
                           THEN [done EXCEPT !.raised = save_raises(X, fs[i])]
                           ELSE [done EXCEPT !.fns =
                                    save_allocation_factor(done.fns, X, fs[i], FZero)]
                      ELSE done
                 ELSE [done EXCEPT !.functions = Append(done.functions, fs[i])] :
             done \in {partition(F, X, fs, i - 1)}})

\* generic_allocation, line 62: [getter(function) for function in functions]
getter_values(strategy, F, X, set) ==
    [i \in 1..Len(set) |-> getter(strategy, F, X, set[i])]

\* The exception of the first getter call that raises ("" if none does).
first_raised(values) ==
    IF \A i \in 1..Len(values) : values[i].raised = "" THEN ""
    ELSE values[CHOOSE i \in 1..Len(values) :
                    /\ values[i].raised # ""
                    /\ \A j \in 1..(i - 1) : values[j].raised = ""].raised

\* generic_allocation, line 62: total = sum(...)
total_of(values) == FSum([i \in 1..Len(values) |-> values[i].value])

\* The assignment with the getter's value written as the factor, not divided by the total.
RECURSIVE assign_factors_unnormalised(_, _, _, _, _, _)
assign_factors_unnormalised(strategy, F, X, set, total, i) ==
    IF i = 0 THEN [fns |-> F, raised |-> ""]
    ELSE The({
             IF done.raised # "" THEN done
             ELSE IF save_raises(X, set[i]) # ""
                  THEN [done EXCEPT !.raised = save_raises(X, set[i])]
             ELSE [done EXCEPT !.fns =
                      save_allocation_factor(done.fns, X, set[i],
                                             getter(strategy, done.fns, X, set[i]).value)] :
             done \in {assign_factors_unnormalised(strategy, F, X, set, total, i - 1)}})

\* generic_allocation, lines 69-72, over the first i functions of the allocation
\* set: factor = getter(function) / total, saved per function; a save that raises
\* ends the loop.  Gives the table as written so far and the exception raised.
RECURSIVE assign_factors(_, _, _, _, _, _)
assign_factors(strategy, F, X, set, total, i) ==
    IF i = 0 THEN [fns |-> F, raised |-> ""]
    ELSE The({
             IF done.raised # "" THEN done
             ELSE IF save_raises(X, set[i]) # ""
                  THEN [done EXCEPT !.raised = save_raises(X, set[i])]
             ELSE [done EXCEPT !.fns =
                      save_allocation_factor(done.fns, X, set[i],
                          FDiv(getter(strategy, done.fns, X, set[i]).value, total))] :
             done \in {assign_factors(strategy, F, X, set, total, i - 1)}})

\* generic_allocation returning silently, nothing assigned, when the total is zero.
generic_allocation_silent_zero(F, X, p, strategy) ==
    IF ~multifunctional(X, p) THEN [fns |-> F, raised |-> ""]
    ELSE IF \E x \in production(X, p) : x.input \notin DOMAIN F
         THEN [fns |-> F, raised |-> "UnknownObject"]
    ELSE The({
         The({
             IF part.raised # "" THEN [fns |-> part.fns, raised |-> part.raised]
             ELSE The({
                  The({
                      IF raised # "" THEN [fns |-> part.fns, raised |-> raised]
                      ELSE The({
                               IF total[1] = 0 THEN [fns |-> part.fns, raised |-> ""]
                               ELSE assign_factors(strategy, part.fns, X, part.functions,
                                                   total, Len(part.functions)) :
                               total \in {total_of(values)}}) :
                      raised \in {first_raised(values)}}) :
                      values \in {getter_values(strategy, part.fns, X, part.functions)}}) :
             part \in {partition(F, X, fs, Len(fs))}}) :
             fs \in {functions(X, p)}})

\* generic_allocation(process, getter): the table afterwards and the exception raised.
\* process.functions() resolves the input of every production exchange and raises
\* UnknownObject for an input that is no stored node.
generic_allocation(F, X, p, strategy) ==
    IF ~multifunctional(X, p) THEN [fns |-> F, raised |-> ""]
    ELSE IF \E x \in production(X, p) : x.input \notin DOMAIN F
         THEN [fns |-> F, raised |-> "UnknownObject"]
    ELSE The({
         The({
             IF part.raised # "" THEN [fns |-> part.fns, raised |-> part.raised]
             ELSE The({
                  The({
                      IF raised # "" THEN [fns |-> part.fns, raised |-> raised]
                      ELSE The({
                               IF total[1] = 0
                               THEN [fns |-> part.fns, raised |-> "ZeroDivisionError"]
                               ELSE assign_factors(strategy, part.fns, X, part.functions,
                                                   total, Len(part.functions)) :
                               total \in {total_of(values)}}) :
                      raised \in {first_raised(values)}}) :
                      values \in {getter_values(strategy, part.fns, X, part.functions)}}) :
             part \in {partition(F, X, fs, Len(fs))}}) :
             fs \in {functions(X, p)}})

\* self.get("allocation") of a process: None when the key is absent.
get_allocation(P, p) == IF P[p].allocation = ABSENT THEN NONE ELSE P[p].allocation

\* The resolution with the collection's default taken before the process's own label.
resolve_label_default_first(P, M, p, strategy_label) ==
    IF strategy_label # NONE THEN strategy_label
    ELSE IF M.default_allocation \notin {NONE, ""} THEN M.default_allocation
    ELSE get_allocation(P, p)

\* Process.allocate, lines 363-367: the label the call resolves to.
resolve_label(P, M, p, strategy_label) ==
    IF strategy_label # NONE THEN strategy_label
    ELSE IF get_allocation(P, p) \notin {NONE, ""} THEN get_allocation(P, p)
    ELSE M.default_allocation

\* The lookup that never consults the registry.
alloc_function_property_only(label) == property_allocation(label)

\* Process.allocate, line 376: allocation_strategies.get(label, property_allocation(label))
alloc_function(label) ==
    IF label \in DOMAIN allocation_strategies THEN allocation_strategies[label]
    ELSE property_allocation(label)

\* Process.allocate without the test of skip_allocation.
allocate_ignoring_skip(P, F, X, M, p, strategy_label) ==
    IF ~multifunctional(X, p)
    THEN [fns |-> F, result |-> "NoAllocationNeeded", strategy |-> NONE]
    ELSE The({
             IF label \in {NONE, ""}
             THEN [fns |-> F, result |-> "ValueError", strategy |-> NONE]
             ELSE The({
                      [fns |-> done.fns,
                       result |-> IF done.raised = "" THEN "None" ELSE done.raised,
                       strategy |-> label] :
                      done \in {generic_allocation(F, X, p, alloc_function(label))}}) :
             label \in {resolve_label(P, M, p, strategy_label)}})

\* Process.allocate(strategy_label): the table afterwards and what the call gave:
\* "NoAllocationNeeded", "None" when the allocation ran to its end, or the
\* exception raised.
allocate(P, F, X, M, p, strategy_label) ==
    IF P[p].skip_allocation \/ ~multifunctional(X, p)
    THEN [fns |-> F, result |-> "NoAllocationNeeded", strategy |-> NONE]
    ELSE The({
             IF label \in {NONE, ""}
             THEN [fns |-> F, result |-> "ValueError", strategy |-> NONE]
             ELSE The({
                      [fns |-> done.fns,
                       result |-> IF done.raised = "" THEN "None" ELSE done.raised,
                       strategy |-> label] :
                      done \in {generic_allocation(F, X, p, alloc_function(label))}}) :
             label \in {resolve_label(P, M, p, strategy_label)}})

\* The labels a caller passes to Process.allocate: None, the empty string, the two
\* registered names, a property the functions may carry and one none of them has.
StrategyLabels == {NONE, "", "equal", "manual", "mass", "price"}

\* A function as written to the collection, with its production amount.
Template(props, factor, substitution, amount) ==
    [properties |-> props, allocation_factor |-> factor,
     substitution_factor |-> substitution, amount |-> amount]

Props(mass, equal) == [mass |-> mass, equal |-> equal]

\* Functions that differ in their stored factor and their substitution.
FactorTemplates ==
    {Template(Props(PropVal("record", 1, "absent"), Missing), af, sf, 1) :
        af \in {<<>>, FromInt(4), FromInt(-1)}, sf \in {0, 2}}

\* Functions that differ in the value stored for the property mass.
PropertyTemplates ==
    {Template(Props(m, Missing), <<>>, 0, 1) : m \in {Missing, PropVal("record", 0, "false")}}
    \cup {Template(Props(PropVal("record", 2, "true"), Missing), <<>>, 0, -3)}

Templates == FactorTemplates \cup PropertyTemplates

\* Process.deduct_type
Process_deduct_type(X, p) ==
    IF multifunctional(X, p) THEN "multifunctional"
    ELSE IF ~functional(X, p) THEN "nonfunctional"
    ELSE "process"

\* The record of a call: the operation, the node or exchange it was made on, the
\* label passed, the strategy an allocation resolved to, what the call gave and, for
\* an operation on a node or an edge, the process and the function concerned, the
\* stored label before the call, the amount of the edge before and after, and the
\* number of node and edge operations made so far; for Database.process(), the
\* two matrices it built and the exchange types it logged a warning for.
NoCall ==
    [op |-> "", node |-> 0, label |-> NONE, strategy |-> NONE, result |-> "",
     value |-> <<>>, again |-> FALSE, process |-> 0, function |-> 0, was |-> NONE,
     amount_was |-> 0, amount |-> 0, nth |-> 0, tech_matrix |-> {}, bio_matrix |-> {},
     warnings |-> {}, exchanges |-> {}, class |-> "", messages |-> <<>>,
     available |-> <<>>, stack |-> <<>>]

\* The collection as written with process 1 and its functions 1..n, function i
\* made from template t[i] with production exchange i.
Written(t, allocation, skip, default) ==
    LET X == {[id |-> i, input |-> i, output |-> 1, amount |-> t[i].amount,
               type |-> "production"] : i \in DOMAIN t}
    IN  /\ excs = X
        /\ fns = [i \in DOMAIN t |->
                    [processor |-> 1, type |-> Function_deduct_type(X, i),
                     properties |-> t[i].properties,
                     allocation_factor |-> t[i].allocation_factor,
                     substitution_factor |-> t[i].substitution_factor]]
        /\ procs = [q \in {1} |->
                    [type |-> Process_deduct_type(X, 1), allocation |-> allocation,
                     skip_allocation |-> skip]]
        /\ metadata = [default_allocation |-> default]

Init ==
    /\ \E n \in 0..MaxFuncs : \E t \in [1..n -> Templates] : \E skip \in BOOLEAN :
           Written(t, NONE, skip, NONE)
    /\ call = NoCall
    /\ before = fns

\* A caller runs Process.allocate(strategy_label) on process p.
Allocate(p, strategy_label) ==
    \E r \in {allocate(procs, fns, excs, metadata, p, strategy_label)} :
        /\ fns' = r.fns
        /\ before' = fns
        /\ call' = [NoCall EXCEPT
                        !.op = "allocate", !.node = p, !.label = strategy_label,
                        !.strategy = r.strategy, !.result = r.result,
                        !.again = /\ call.op = "allocate"
                                  /\ call.node = p
                                  /\ call.result = "None"
                                  /\ call.strategy = r.strategy]
        /\ UNCHANGED <<procs, excs, metadata>>

Next ==
    \E p \in DOMAIN procs : \E l \in StrategyLabels : Allocate(p, l)

\* Allocation of a process whose functions differ in factor, substitution and property.
Spec == Init /\ [][Next]_vars

\* Functions that carry the properties mass and equal with unequal values.
ResolveTemplates ==
    {Template(Props(PropVal("record", 1, "absent"), PropVal("record", 3, "absent")), <<>>, 0, 1),
     Template(Props(PropVal("record", 3, "absent"), PropVal("record", 1, "absent")),
              FromInt(4), 0, 1),
     Template(Props(PropVal("record", 3, "absent"), PropVal("record", 3, "absent")), <<>>, 0, 1)}

\* The values of `allocation` of a process and of `default_allocation` of a collection.
ProcessLabels == {NONE, "", "equal", "mass"}

DefaultLabels == {NONE, "", "manual"}

InitResolve ==
    /\ \E n \in 2..MaxFuncs : \E t \in [1..n -> ResolveTemplates] :
       \E allocation \in ProcessLabels : \E default \in DefaultLabels :
           Written(t, allocation, FALSE, default)
    /\ call = NoCall
    /\ before = fns

\* Allocation under every combination of the explicit, the process's and the
\* collection's label.
SpecResolve == InitResolve /\ [][Next]_vars

\* The values a property is stored with.
GetterValues ==
    {Missing}
    \cup {PropVal("record", a, n) : a \in {-2, 0, 3}, n \in {"true", "false", "absent"}}
    \cup {PropVal("float", a, "absent") : a \in {-1, 0, 2}}
    \cup {PropVal("int", a, "absent") : a \in {0, 5}}
    \cup {PropVal("bool", a, "absent") : a \in {0, 1}}

\* The amounts of a processing edge.
GetterAmounts == {-4, 0, 1, 3}

InitGetter ==
    /\ \E m \in GetterValues : \E e \in {Missing, PropVal("record", 1, "absent")} :
       \E a \in GetterAmounts :
           Written([i \in {1} |-> Template(Props(m, e), <<>>, 0, a)], NONE, FALSE, NONE)
    /\ call = NoCall
    /\ before = fns

\* A caller runs get_property_value(function, property_label).
GetPropertyValue(f, property_label) ==
    \E r \in {get_property_value(fns, excs, f, property_label)} :
        /\ call' = [NoCall EXCEPT
                        !.op = "get_property_value", !.node = f, !.label = property_label,
                        !.result = IF r.raised = "" THEN "value" ELSE r.raised,
                        !.value = r.value]
        /\ before' = fns
        /\ UNCHANGED <<procs, fns, excs, metadata>>

NextGetter ==
    \E f \in DOMAIN fns : \E l \in PropLabels \cup {"price"} : GetPropertyValue(f, l)

\* get_property_value on one function, over the stored values and edge amounts.
SpecGetter == InitGetter /\ [][NextGetter]_vars

(***************************************************************************)
(* The node and edge operations (node_classes.py, edge_classes.py).  An    *)
(* operation runs as a chain of steps on the collection; a step that       *)
(* raises ends the operation and leaves what was written before it.        *)
(***************************************************************************)

\* The collection while an operation runs, and the exception that ended it.
Store(P, F, X) == [procs |-> P, fns |-> F, excs |-> X, raised |-> ""]

Fail(S, e) == [S EXCEPT !.raised = e]

MaxOf(ids) == IF ids = {} THEN 0 ELSE CHOOSE x \in ids : \A y \in ids : y <= x

\* The ids the store gives to a new exchange, function and process.
new_exchange_id(X) == MaxOf({x.id : x \in X}) + 1

new_function_id(F, X) == MaxOf(DOMAIN F \cup {x.input : x \in X}) + 1

new_process_id(P) == MaxOf(DOMAIN P) + 1

\* A table with the row of id k written, and with it removed.
Insert(T, k, row) == [j \in DOMAIN T \cup {k} |-> IF j = k THEN row ELSE T[j]]

Remove(T, k) == [j \in DOMAIN T \ {k} |-> T[j]]

\* self.processor.allocate(), process.allocate(): Process.allocate() with no label,
\* called from a save or a delete; NoAllocationNeeded is a return value.
process_allocate(S, M, p) ==
    The({
        IF s.raised # "" THEN s
        ELSE The({
                 [s EXCEPT !.fns = r.fns,
                           !.raised = IF r.result \in {"NoAllocationNeeded", "None"}
                                      THEN "" ELSE r.result] :
                 r \in {allocate(s.procs, s.fns, s.excs, M, p, NONE)}}) :
        s \in {S}})

\* Process.save() that writes the label and leaves the stored type as it was.
Process_save_keeps_type(S, M, p, allocation) ==
    The({
        IF s.raised # "" THEN s
        ELSE LET label == IF allocation = ABSENT THEN M.default_allocation ELSE allocation
                 saved == [s EXCEPT !.procs[p].allocation = label]
             IN  IF get_allocation(s.procs, p) # label
                 THEN process_allocate(saved, M, p)
                 ELSE saved :
        s \in {S}})

\* Process.save() of a stored process whose `allocation` in memory is the value given.
Process_save(S, M, p, allocation) ==
    The({
        IF s.raised # "" THEN s
        ELSE LET label == IF allocation = ABSENT THEN M.default_allocation ELSE allocation
                 saved == [s EXCEPT !.procs[p].type = Process_deduct_type(s.excs, p),
                                    !.procs[p].allocation = label]
             IN  IF get_allocation(s.procs, p) # label
                 THEN process_allocate(saved, M, p)
                 ELSE saved :
        s \in {S}})

\* MFExchange.save() of a new production exchange from function f to process p.
MFExchange_save_created(S, M, f, p, amount) ==
    The({
        IF s.raised # "" THEN s
        ELSE LET x == [id |-> new_exchange_id(s.excs), input |-> f, output |-> p,
                       amount |-> amount, type |-> "production"]
                 saved == [s EXCEPT !.excs = @ \cup {x}]
             IN  process_allocate(Process_save(saved, M, p, s.procs[p].allocation), M, p) :
        s \in {S}})

\* MFExchange.save() of a stored exchange that writes the amount and allocates nothing.
MFExchange_save_amount_without_allocation(S, M, x, amount) ==
    IF S.raised # "" THEN S
    ELSE [S EXCEPT !.excs = (@ \ {x}) \cup {[x EXCEPT !.amount = amount]}]

\* MFExchange.save() of the stored production exchange x with a new amount.
MFExchange_save_amount(S, M, x, amount) ==
    The({
        IF s.raised # "" THEN s
        ELSE LET saved == [s EXCEPT !.excs = (@ \ {x}) \cup {[x EXCEPT !.amount = amount]}]
             IN  IF x.input \notin DOMAIN s.fns THEN Fail(saved, "UnknownObject")
                 ELSE IF x.amount # amount THEN process_allocate(saved, M, x.output)
                 ELSE saved :
        s \in {S}})

\* MFExchange.delete() that leaves the function of the exchange in the table.
MFExchange_delete_keeps_function(S, M, x) ==
    The({
        IF s.raised # "" THEN s
        ELSE LET deleted == [s EXCEPT !.excs = @ \ {x}]
             IN  process_allocate(
                     Process_save(deleted, M, x.output, s.procs[x.output].allocation),
                     M, x.output) :
        s \in {S}})

\* MFExchange.delete() of the production exchange x: the exchange, then its
\* function (MFActivity.delete), then the process saved and allocated.
MFExchange_delete(S, M, x) ==
    The({
        IF s.raised # "" THEN s
        ELSE LET deleted == [s EXCEPT !.excs = @ \ {x}]
                 gone    == [deleted EXCEPT !.fns = Remove(@, x.input)]
             IN  IF x.input \notin DOMAIN s.fns THEN Fail(deleted, "UnknownObject")
                 ELSE process_allocate(
                          Process_save(gone, M, x.output, s.procs[x.output].allocation),
                          M, x.output) :
        s \in {S}})

\* MFExchanges.delete(): every exchange of the list deleted in turn.
RECURSIVE MFExchanges_delete(_, _, _, _)
MFExchanges_delete(S, M, ids, i) ==
    IF i = 0 THEN S
    ELSE The({
             IF \E x \in done.excs : x.id = ids[i]
             THEN MFExchange_delete(done, M, CHOOSE x \in done.excs : x.id = ids[i])
             ELSE done :
             done \in {MFExchanges_delete(S, M, ids, i - 1)}})

\* Function.delete(): self.upstream(["production"]).delete()
Function_delete(S, M, f) ==
    The({
        LET ids == Ascending({x.id : x \in processing_edges(s.excs, f)})
        IN  MFExchanges_delete(s, M, ids, Len(ids)) :
        s \in {S}})

\* properties.get(label) of a function record.
property_of(fn, label) ==
    IF label \in DOMAIN fn.properties THEN fn.properties[label] ELSE Missing

\* Function.save() of the stored function f, `data` being the record in memory.
Function_save(S, M, f, data) ==
    The({
        IF s.raised # "" THEN s
        ELSE IF save_raises(s.excs, f) # "" THEN Fail(s, save_raises(s.excs, f))
        ELSE LET old   == s.fns[f]
                 saved == [s EXCEPT !.fns[f] =
                              [data EXCEPT !.type = Function_deduct_type(s.excs, f)]]
                 edge  == processing_edge(s.excs, f)
                 moved == IF edge.output # data.processor
                          THEN [saved EXCEPT !.excs =
                                   (@ \ {edge}) \cup {[edge EXCEPT !.output = data.processor]}]
                          ELSE saved
                 label == get_allocation(s.procs, data.processor)
             IN  IF processing_edges(s.excs, f) = {} THEN Fail(saved, "AttributeError")
                 ELSE The({
                               IF (old.substitution_factor > 0) # (data.substitution_factor > 0)
                               THEN process_allocate(first, M, data.processor)
                               ELSE first :
                          first \in {IF property_of(old, label) # property_of(data, label)
                                     THEN process_allocate(moved, M, data.processor)
                                     ELSE moved}}) :
        s \in {S}})

\* Function.create_processing_edge()
create_processing_edge(S, M, f) ==
    The({
        IF s.raised # "" THEN s
        ELSE MFExchange_save_created(s, M, f, s.fns[f].processor,
                                     IF s.fns[f].type = "product" THEN 1 ELSE -1) :
        s \in {S}})

\* Function.save() of a new function of process p (Process.new_product,
\* Process.new_waste): the node is written and its processing edge created.
Function_save_created(S, M, p, type, properties) ==
    LET f == new_function_id(S.fns, S.excs)
        node == [processor |-> p, type |-> type, properties |-> properties,
                 allocation_factor |-> <<>>, substitution_factor |-> 0]
    IN  create_processing_edge([S EXCEPT !.fns = Insert(@, f, node)], M, f)

\* Process.copy(), lines 225-235, over the first i functions of the process copied:
\* the production exchange that Activity.copy wrote from the function to the copy
\* `act` is deleted in the table, the function is copied with the copy as its
\* processor, the copied function gets a processing edge of its own and is saved
\* with the record it was copied with.
RECURSIVE copy_functions(_, _, _, _, _)
copy_functions(S, M, act, fs, i) ==
    IF i = 0 THEN S
    ELSE The({
             LET raw  == CHOOSE x \in done.excs :
                            x.input = fs[i] /\ x.output = act /\ x.type = "production"
                 removed == [done EXCEPT !.excs = @ \ {raw}]
                 copied_fn == new_function_id(done.fns, done.excs \ {raw})
                 data == [S.fns[fs[i]] EXCEPT !.processor = act]
                 copied == [removed EXCEPT !.fns = Insert(@, copied_fn, data)]
             IN  IF done.raised # "" THEN done
                 ELSE Function_save(create_processing_edge(copied, M, copied_fn), M,
                                    copied_fn, data) :
             done \in {copy_functions(S, M, act, fs, i - 1)}})

\* Process.copy(): Activity.copy writes the copy of the node and, for every exchange
\* of the process, an exchange with the copy as its output, both without the hooks
\* of save(); then the functions are copied one by one.
Process_copy(S, M, p) ==
    LET act == new_process_id(S.procs)
        ids == Ascending({x.id : x \in production(S.excs, p)})
        edge(i) == CHOOSE x \in S.excs : x.id = ids[i]
        raw == {[id |-> new_exchange_id(S.excs) + i - 1, input |-> edge(i).input,
                 output |-> act, amount |-> edge(i).amount, type |-> "production"] :
                    i \in 1..Len(ids)}
        written == [S EXCEPT !.procs = Insert(@, act, S.procs[p]), !.excs = @ \cup raw]
        fs == functions(S.excs, p)
    IN  IF \E i \in 1..Len(fs) : fs[i] \notin DOMAIN S.fns
        THEN Fail(written, "UnknownObject")
        ELSE copy_functions(written, M, act, fs, Len(fs))

\* The last operation was a copy that raised: the collection is left with functions
\* of several production edges, on which no further operation is modelled.
CopyFailed == call.op = "copy_process" /\ call.result # "None"

\* A further node or edge operation is made on the collection.
Ready == call.nth < MaxOps /\ ~CopyFailed

\* The store after an operation that ended in S, and the record of the call.
Finish(S, made) ==
    /\ procs' = S.procs
    /\ fns' = S.fns
    /\ excs' = S.excs
    /\ before' = fns
    /\ call' = [made EXCEPT !.result = IF S.raised = "" THEN "None" ELSE S.raised,
                             !.nth = call.nth + 1]
    /\ UNCHANGED metadata

\* The values of the property mass a caller gives a function.
StoreMass == {Missing, PropVal("record", 1, "absent"), PropVal("record", 3, "true")}

\* The amounts a caller gives a production edge.
StoreAmounts == {-2, 3}

\* The labels a caller stores on a process.
StoreLabels == {"mass", "manual"}

\* A caller makes a product or a waste of process p and saves it.
CreateFunction(p, type, properties) ==
    /\ Ready
    /\ \E S \in {Function_save_created(Store(procs, fns, excs), metadata, p, type, properties)} :
           Finish(S, [NoCall EXCEPT !.op = "create_function", !.process = p,
                                    !.node = new_function_id(fns, excs),
                                    !.function = new_function_id(fns, excs)])

\* A caller sets the processor, the substitution factor and the property mass of a
\* stored function and saves it.
SaveFunction(f, processor, substitution_factor, mass) ==
    LET data == [fns[f] EXCEPT !.processor = processor,
                               !.substitution_factor = substitution_factor,
                               !.properties.mass = mass]
    IN  Ready /\ \E S \in {Function_save(Store(procs, fns, excs), metadata, f, data)} :
            Finish(S, [NoCall EXCEPT !.op = "save_function", !.node = f, !.function = f,
                                     !.process = processor])

\* A caller deletes a stored function.
DeleteFunction(f) ==
    Ready /\ \E S \in {Function_delete(Store(procs, fns, excs), metadata, f)} :
        Finish(S, [NoCall EXCEPT !.op = "delete_function", !.node = f, !.function = f,
                                 !.process = fns[f].processor])

\* A caller sets the amount of a stored production edge and saves it.
SaveEdge(x, amount) ==
    Ready /\ \E S \in {MFExchange_save_amount(Store(procs, fns, excs), metadata, x, amount)} :
        Finish(S, [NoCall EXCEPT !.op = "save_edge", !.node = x.id, !.function = x.input,
                                 !.process = x.output, !.amount_was = x.amount,
                                 !.amount = amount])

\* A caller deletes a stored production edge.
DeleteEdge(x) ==
    Ready /\ \E S \in {MFExchange_delete(Store(procs, fns, excs), metadata, x)} :
        Finish(S, [NoCall EXCEPT !.op = "delete_edge", !.node = x.id, !.function = x.input,
                                 !.process = x.output])

\* A caller sets `allocation` of a stored process and saves it.
SaveProcess(p, allocation) ==
    Ready /\ \E S \in {Process_save(Store(procs, fns, excs), metadata, p, allocation)} :
        Finish(S, [NoCall EXCEPT !.op = "save_process", !.node = p, !.process = p,
                                 !.label = allocation, !.was = get_allocation(procs, p)])

NextStore ==
    \/ \E p \in DOMAIN procs : \E type \in {"product", "waste"} : \E mass \in StoreMass :
           CreateFunction(p, type, Props(mass, Missing))
    \/ \E f \in DOMAIN fns :
           \/ SaveFunction(f, fns[f].processor, fns[f].substitution_factor,
                           fns[f].properties.mass)
           \/ \E processor \in DOMAIN procs \ {fns[f].processor} :
                  SaveFunction(f, processor, fns[f].substitution_factor,
                               fns[f].properties.mass)
           \/ \E substitution_factor \in {0, 2} \ {fns[f].substitution_factor} :
                  SaveFunction(f, fns[f].processor, substitution_factor,
                               fns[f].properties.mass)
           \/ \E mass \in StoreMass \ {fns[f].properties.mass, Missing} :
                  SaveFunction(f, fns[f].processor, fns[f].substitution_factor, mass)
    \/ \E f \in DOMAIN fns : DeleteFunction(f)
    \/ \E x \in excs : \E amount \in StoreAmounts : SaveEdge(x, amount)
    \/ \E x \in excs : DeleteEdge(x)
    \/ \E p \in DOMAIN procs : \E allocation \in StoreLabels \cup {procs[p].allocation} :
           SaveProcess(p, allocation)

\* A caller copies a stored process.
CopyProcess(p) ==
    Ready /\ \E S \in {Process_copy(Store(procs, fns, excs), metadata, p)} :
        Finish(S, [NoCall EXCEPT !.op = "copy_process", !.node = p,
                                 !.process = new_process_id(procs)])

\* A product of mass 1, a product whose mass of 3 is per unit produced, a waste,
\* and a product written without the property.
StoreProduct == Template(Props(PropVal("record", 1, "absent"), Missing), <<>>, 0, 1)

StorePerUnit == Template(Props(PropVal("record", 3, "true"), Missing), <<>>, 0, 3)

StoreWaste == Template(Props(PropVal("record", 1, "absent"), Missing), <<>>, 0, -2)

StoreBare == Template(Props(Missing, Missing), <<>>, 0, 1)

\* The functions of process 1 in the collections written.
StoreCollections ==
    {<<>>, <<StoreWaste>>, <<StoreProduct, StorePerUnit>>,
     <<StoreProduct, StorePerUnit, StoreWaste>>, <<StoreProduct, StoreWaste, StoreBare>>}

\* A collection as written: process 1 with its functions, allocated or skipped,
\* and process 2 with none.
InitStore ==
    /\ \E t \in StoreCollections : \E allocation \in {ABSENT, "mass"} :
       \E skip \in BOOLEAN :
           /\ excs = {[id |-> i, input |-> i, output |-> 1, amount |-> t[i].amount,
                       type |-> "production"] : i \in DOMAIN t}
           /\ fns = [i \in DOMAIN t |->
                       [processor |-> 1, type |-> Function_deduct_type(excs, i),
                        properties |-> t[i].properties, allocation_factor |-> <<>>,
                        substitution_factor |-> 0]]
           /\ procs = [q \in {1, 2} |->
                       [type |-> Process_deduct_type(excs, q), allocation |-> allocation,
                        skip_allocation |-> skip /\ q = 1]]
           /\ metadata = [default_allocation |-> "equal"]
    /\ call = NoCall
    /\ before = fns

\* The node and edge operations on a collection of two processes.
SpecStore == InitStore /\ [][NextStore]_vars

\* A collection as written whose processes store no strategy of their own and are
\* allocated by the collection's default, the property mass.
InitStoreDefault ==
    /\ \E t \in StoreCollections : \E skip \in BOOLEAN :
           /\ excs = {[id |-> i, input |-> i, output |-> 1, amount |-> t[i].amount,
                       type |-> "production"] : i \in DOMAIN t}
           /\ fns = [i \in DOMAIN t |->
                       [processor |-> 1, type |-> Function_deduct_type(excs, i),
                        properties |-> t[i].properties, allocation_factor |-> <<>>,
                        substitution_factor |-> 0]]
           /\ procs = [q \in {1, 2} |->
                       [type |-> Process_deduct_type(excs, q), allocation |-> ABSENT,
                        skip_allocation |-> skip /\ q = 1]]
           /\ metadata = [default_allocation |-> "mass"]
    /\ call = NoCall
    /\ before = fns

\* The node and edge operations on a collection allocated by its default strategy.
SpecStoreDefault == InitStoreDefault /\ [][NextStore]_vars

NextCreateDelete ==
    \/ \E p \in DOMAIN procs : \E type \in {"product", "waste"} : \E mass \in StoreMass :
           CreateFunction(p, type, Props(mass, Missing))
    \/ \E x \in excs : DeleteEdge(x)

\* Functions are created and production edges deleted, in any order.
SpecCreateDelete == InitStore /\ [][NextCreateDelete]_vars

NextCopy ==
    \/ NextStore
    \/ \E p \in DOMAIN procs : CopyProcess(p)

\* The node and edge operations and Process.copy.
SpecCopy == InitStore /\ [][NextCopy]_vars

(***************************************************************************)
(* The processed tables of a collection (database.py).  A table is the set *)
(* of its rows; a row joined from an exchange keeps that exchange's id in  *)
(* `exchange`, so rows of equal content stay apart as they do in a frame.  *)
(***************************************************************************)

\* pd.NA among the ids: the processor and the substitute of a node that has none
\* (id_mapper gives it for a key that is no tuple).
NA == -1

\* Database.get_tables, lines 118-125: the frame of the nodes.  A process has
\* neither processor nor allocation factor.
node_df(P, F) ==
    {[id |-> p, type |-> P[p].type, processor |-> NA, allocation_factor |-> <<>>,
      substitute |-> NA, substitution_factor |-> 0] : p \in DOMAIN P}
    \cup
    {[id |-> f, type |-> F[f].type, processor |-> F[f].processor,
      allocation_factor |-> F[f].allocation_factor,
      substitute |-> F[f].substitute,
      substitution_factor |-> F[f].substitution_factor] : f \in DOMAIN F}

\* NaN: the value of a float column in a row that has none.
NaN == <<>>

\* The ids of the distribution families of stats_arrays.
UndefinedUncertainty_id == 0
NoUncertainty_id == 1
LognormalUncertainty_id == 2
NormalUncertainty_id == 3
UniformUncertainty_id == 4
TriangularUncertainty_id == 5
WeibullUncertainty_id == 8
GammaUncertainty_id == 9
BetaUncertainty_id == 10
GeneralizedExtremeValueUncertainty_id == 11

\* The uncertainty of an exchange: UNCERTAINTY_FIELDS.  The type is an id or NA, the
\* others are floats or NaN.
Uncertainty(uncertainty_type, loc, scale, shape, minimum, maximum) ==
    [uncertainty_type |-> uncertainty_type, loc |-> loc, scale |-> scale,
     shape |-> shape, minimum |-> minimum, maximum |-> maximum]

\* The uncertainty of an exchange written without any of the fields.
NoFields == Uncertainty(NA, NaN, NaN, NaN, NaN, NaN)

\* The uncertainty fields of the stored exchange x.
uncertainty_of(x) ==
    IF "uncertainty_type" \in DOMAIN x
    THEN Uncertainty(x.uncertainty_type, x.loc, x.scale, x.shape, x.minimum, x.maximum)
    ELSE NoFields

\* Database.get_tables, lines 127-137: the frame of the exchanges, whose column
\* amount holds floats and which has a column for every uncertainty field.  `ln`
\* is no column: loc stands for loc + log(ln), and ln is 1 in the frame.
exc_df(X) ==
    {[id |-> x.id, input |-> x.input, output |-> x.output, type |-> x.type,
      amount |-> FromInt(x.amount),
      uncertainty_type |-> uncertainty_of(x).uncertainty_type,
      loc |-> uncertainty_of(x).loc, scale |-> uncertainty_of(x).scale,
      shape |-> uncertainty_of(x).shape, minimum |-> uncertainty_of(x).minimum,
      maximum |-> uncertainty_of(x).maximum, ln |-> FOne] : x \in X}

\* fillna(1) of a factor.
fillna_1(factor) == IF factor = <<>> THEN FOne ELSE factor

\* A row of a join: the columns of the exchange x, `output` being the given id,
\* and the factor kept from the node (NaN where the join keeps none); `exchange`
\* is the row of the exchange frame it was made from.
Joined(x, output, allocation_factor) ==
    [input |-> x.input, output |-> output, type |-> x.type, amount |-> x.amount,
     allocation_factor |-> allocation_factor, exchange |-> x.id,
     uncertainty_type |-> x.uncertainty_type, loc |-> x.loc, scale |-> x.scale,
     shape |-> x.shape, minimum |-> x.minimum, maximum |-> x.maximum, ln |-> x.ln]

\* The join with the column `output` left as the exchange has it.
Join_exchanges_to_functions_keeps_output(nodes, exchanges, exchange_types) ==
    LET selected  == {x \in exchanges : x.type \in exchange_types}
        functions_ == {n \in nodes : n.processor # NA}
    IN  {Joined(nx[2], nx[2].output, nx[1].allocation_factor) :
            nx \in {pair \in functions_ \X selected : pair[1].processor = pair[2].output}}

\* Join.exchanges_to_functions: every exchange of the given types joined to every
\* function whose processor is the exchange's output; `output` becomes the id of
\* the function.
Join_exchanges_to_functions(nodes, exchanges, exchange_types) ==
    LET selected  == {x \in exchanges : x.type \in exchange_types}
        functions_ == {n \in nodes : n.processor # NA}
    IN  {Joined(nx[2], nx[1].id, nx[1].allocation_factor) :
            nx \in {pair \in functions_ \X selected : pair[1].processor = pair[2].output}}

\* The join of the production exchanges on the processor alone.
Join_production_exchanges_to_functions_on_processor(nodes, exchanges) ==
    LET production_exchanges == {x \in exchanges : x.type = "production"}
        functions_ == {n \in nodes : n.processor # NA}
    IN  {Joined(nx[2], nx[1].id, NaN) :
            nx \in {pair \in functions_ \X production_exchanges :
                        pair[1].processor = pair[2].output}}

\* Join.production_exchanges_to_functions: a production exchange joined to the
\* function that is its input and whose processor is its output.
Join_production_exchanges_to_functions(nodes, exchanges) ==
    LET production_exchanges == {x \in exchanges : x.type = "production"}
        functions_ == {n \in nodes : n.processor # NA}
    IN  {Joined(nx[2], nx[1].id, NaN) :
            nx \in {pair \in functions_ \X production_exchanges :
                        /\ pair[1].id = pair[2].input
                        /\ pair[1].processor = pair[2].output}}

\* The allocation with a missing factor filled with 0.
Mutate_allocate_amount_fillna_0(df) ==
    {[r EXCEPT !.amount = FMul(IF r.allocation_factor = <<>> THEN FZero
                               ELSE r.allocation_factor, r.amount)] : r \in df}

\* Mutate.allocate_amount: amount = allocation_factor.fillna(1) * amount
Mutate_allocate_amount(df) ==
    {[r EXCEPT !.amount = FMul(fillna_1(r.allocation_factor), r.amount)] : r \in df}

\* The families allocate_distributions scales: the list `standard` holds the ids of
\* six families and, for undefined and none, the classes themselves, which equal the
\* id of no row.
standard ==
    {NormalUncertainty_id, UniformUncertainty_id, TriangularUncertainty_id,
     WeibullUncertainty_id, GammaUncertainty_id, GeneralizedExtremeValueUncertainty_id}

\* The list `ln` of allocate_distributions.
ln == {LognormalUncertainty_id}

\* value * factor of a column, NaN staying NaN.
Scaled(value, factor) == IF value = NaN THEN NaN ELSE FMul(value, factor)

\* Mutate.allocate_distributions, lines 223-231: whether the warning is logged.  The
\* test of the factors is .any() over the whole frame.
cannot_be_allocated(df) ==
    LET any == \E r \in df : fillna_1(r.allocation_factor) # FOne
    IN  \E r \in df : r.uncertainty_type \notin standard \cup ln /\ any

\* allocate_distributions scaling no row.
Mutate_allocate_distributions_unscaled(df) == df

\* Mutate.allocate_distributions, lines 233-244: the frame returned.
Mutate_allocate_distributions(df) ==
    {IF r.uncertainty_type \in standard
     THEN [r EXCEPT !.loc = Scaled(@, fillna_1(r.allocation_factor)),
                    !.scale = Scaled(@, fillna_1(r.allocation_factor)),
                    !.minimum = Scaled(@, fillna_1(r.allocation_factor)),
                    !.maximum = Scaled(@, fillna_1(r.allocation_factor))]
     ELSE IF r.uncertainty_type \in ln /\ r.loc # NaN
     THEN [r EXCEPT !.ln = fillna_1(r.allocation_factor)]
     ELSE r : r \in df}

\* set_default_uncertainty_values leaving loc as it is.
Mutate_set_default_uncertainty_values_type_only(df) ==
    {[r EXCEPT !.uncertainty_type = IF @ = NA THEN UndefinedUncertainty_id ELSE @] :
        r \in df}

\* Mutate.set_default_uncertainty_values
Mutate_set_default_uncertainty_values(df) ==
    {[r EXCEPT !.uncertainty_type = IF @ = NA THEN UndefinedUncertainty_id ELSE @,
               !.loc = IF /\ r.uncertainty_type \in
                                {NA, UndefinedUncertainty_id, NoUncertainty_id}
                           /\ r.loc = NaN
                        THEN r.amount ELSE @] : r \in df}

\* A row of a matrix: the columns row, col, amount and flip and the uncertainty.
Entry(r, flip) ==
    [row |-> r.input, col |-> r.output, amount |-> r.amount, flip |-> flip,
     exchange |-> r.exchange, uncertainty_type |-> r.uncertainty_type, loc |-> r.loc,
     scale |-> r.scale, shape |-> r.shape, minimum |-> r.minimum,
     maximum |-> r.maximum, ln |-> r.ln]

\* Build.allocated
Build_allocated(nodes, exchanges, exchange_types) ==
    Mutate_allocate_distributions(
        Mutate_allocate_amount(
            Join_exchanges_to_functions(nodes, exchanges, exchange_types)))

\* Build.allocated: the exchange types for which allocate_distributions warns.
Build_warnings(nodes, exchanges) ==
    {type \in {"technosphere", "biosphere"} :
        cannot_be_allocated(
            Mutate_allocate_amount(
                Join_exchanges_to_functions(nodes, exchanges, {type})))}

\* Build.biosphere with the sign flipped.
Build_biosphere_flipped(nodes, exchanges) ==
    {Entry(r, TRUE) : r \in Build_allocated(nodes, exchanges, {"biosphere"})}

\* Build.biosphere
Build_biosphere(nodes, exchanges) ==
    {Entry(r, FALSE) : r \in Build_allocated(nodes, exchanges, {"biosphere"})}

\* Build.consumption
Build_consumption(nodes, exchanges) ==
    {Entry(r, TRUE) : r \in Build_allocated(nodes, exchanges, {"technosphere"})}

\* Build.production
Build_production(nodes, exchanges) ==
    {Entry(r, FALSE) : r \in Join_production_exchanges_to_functions(nodes, exchanges)}

\* Build.technosphere: the consumption and the production, concatenated.
Build_technosphere(nodes, exchanges) ==
    Build_consumption(nodes, exchanges) \cup Build_production(nodes, exchanges)

\* Database.process(): the two matrices built from the tables, the exchanges having
\* got their default uncertainty, and the warnings logged on the way.
ProcessDatabase ==
    /\ call.op # "process"
    /\ \E nodes \in {node_df(procs, fns)} :
       \E exchanges \in {Mutate_set_default_uncertainty_values(exc_df(excs))} :
           call' = [NoCall EXCEPT !.op = "process",
                                  !.tech_matrix = Build_technosphere(nodes, exchanges),
                                  !.bio_matrix = Build_biosphere(nodes, exchanges),
                                  !.warnings = Build_warnings(nodes, exchanges),
                                  !.exchanges = exchanges]
    /\ before' = fns
    /\ UNCHANGED <<procs, fns, excs, metadata>>

\* The emission of the collection.
Flow == 0

\* The processes: one with the functions written, and the supplier of one product.
Producer == 1
Supplier == 2

\* The functions of the producer as written: products of production 4 and 6 whose
\* mass is 1 and 3, a product credited against the supplier's, with or without a
\* factor of its own, and a waste.
BuildFour == Template(Props(PropVal("record", 1, "false"), Missing), <<>>, 0, 4)

BuildSix == Template(Props(PropVal("record", 3, "false"), Missing), <<>>, 0, 6)

BuildCredited == Template(Props(PropVal("record", 1, "false"), Missing), FromInt(1), 2, 4)

BuildCreditedBare == Template(Props(PropVal("record", 1, "false"), Missing), <<>>, 2, 4)

BuildWaste == Template(Props(PropVal("record", 2, "true"), Missing), <<>>, 0, -3)

BuildCollections ==
    {<<>>, <<BuildFour>>, <<BuildFour, BuildSix>>, <<BuildFour, BuildCredited>>,
     <<BuildFour, BuildSix, BuildCredited>>, <<BuildFour, BuildSix, BuildCreditedBare>>,
     <<BuildFour, BuildWaste, BuildSix>>}

\* The amounts of the technosphere and of the biosphere exchange of the producer.
BuildAmounts == {<<3, 10>>, <<-1, 7>>}

\* An exchange as written, with its uncertainty.
Exchange(id, input, output, amount, type, u) ==
    [id |-> id, input |-> input, output |-> output, amount |-> amount, type |-> type,
     uncertainty_type |-> u.uncertainty_type, loc |-> u.loc, scale |-> u.scale,
     shape |-> u.shape, minimum |-> u.minimum, maximum |-> u.maximum]

\* The uncertainties written: a normal, a triangular, a lognormal and a beta
\* distribution, no uncertainty without a loc, and an undefined one with a loc.
BuildNormal == Uncertainty(NormalUncertainty_id, FromInt(10), FromInt(2), NaN, NaN, NaN)

BuildTriangular ==
    Uncertainty(TriangularUncertainty_id, FromInt(3), NaN, NaN, FromInt(1), FromInt(6))

BuildLognormal == Uncertainty(LognormalUncertainty_id, FromInt(1), FromInt(1), NaN, NaN, NaN)

BuildBeta == Uncertainty(BetaUncertainty_id, FromInt(2), NaN, FromInt(3), NaN, NaN)

BuildNone == Uncertainty(NoUncertainty_id, NaN, NaN, NaN, NaN, NaN)

BuildUndefined == Uncertainty(UndefinedUncertainty_id, FromInt(4), NaN, NaN, NaN, NaN)

\* The uncertainty of the producer's and of the supplier's exchanges.
BuildUncertainties ==
    {<<NoFields, NoFields>>, <<BuildNormal, BuildBeta>>, <<BuildBeta, BuildNormal>>,
     <<BuildLognormal, BuildNone>>, <<BuildTriangular, BuildUndefined>>,
     <<BuildNone, BuildLognormal>>}

\* A collection as written: the producer with function i of template t[i] at node
\* 2 + i, the supplier with its product of production 8, an exchange of either
\* process with the other's product and an emission of each, with an uncertainty.
InitBuild ==
    /\ \E t \in BuildCollections : \E a \in BuildAmounts : \E skip \in BOOLEAN :
       \E u \in BuildUncertainties :
       LET n == Len(t)
           product == 2 + n + 1
       IN  /\ excs = {Exchange(i, 2 + i, Producer, t[i].amount, "production", NoFields) :
                        i \in DOMAIN t}
                     \cup
                     {Exchange(n + 1, product, Supplier, 8, "production", NoFields),
                      Exchange(n + 2, product, Producer, a[1], "technosphere", u[1]),
                      Exchange(n + 3, Flow, Producer, a[2], "biosphere", u[1]),
                      Exchange(n + 4, IF n = 0 THEN product ELSE 3, Supplier, 2,
                               "technosphere", u[2]),
                      Exchange(n + 5, Flow, Supplier, 5, "biosphere", u[2])}
           /\ fns = [f \in 3..product |->
                       IF f = product
                       THEN [processor |-> Supplier, type |-> "product",
                             properties |-> Props(Missing, Missing),
                             allocation_factor |-> <<>>, substitution_factor |-> 0,
                             substitute |-> NA]
                       ELSE [processor |-> Producer,
                             type |-> Function_deduct_type(excs, f),
                             properties |-> t[f - 2].properties,
                             allocation_factor |-> t[f - 2].allocation_factor,
                             substitution_factor |-> t[f - 2].substitution_factor,
                             substitute |-> IF t[f - 2].substitution_factor > 0
                                            THEN product ELSE NA]]
           /\ procs = [q \in {Producer, Supplier} |->
                       [type |-> Process_deduct_type(excs, q), allocation |-> ABSENT,
                        skip_allocation |-> skip /\ q = Producer]]
           /\ metadata = [default_allocation |-> "equal"]
    /\ call = NoCall
    /\ before = fns

\* The labels a caller allocates the producer with before the collection is processed.
BuildLabels == {NONE, "mass", "manual"}

NextBuild ==
    \/ \E p \in DOMAIN procs : \E l \in BuildLabels : call.op # "process" /\ Allocate(p, l)
    \/ ProcessDatabase

\* A collection written, allocated any number of times, and processed.
SpecBuild == InitBuild /\ [][NextBuild]_vars

(***************************************************************************)
(* The hooks as nested calls (node_classes.py, edge_classes.py,            *)
(* allocation.py).  call.stack holds the calls in progress, the innermost  *)
(* first; a step runs the innermost call up to its next nested call, to    *)
(* its return, or to the exception that unwinds the whole chain.           *)
(***************************************************************************)

\* The deepest nesting of calls followed.
MaxDepth == 6

\* The number of operations a caller starts on a collection.
MaxChains == 1

\* A call of a hook on the node or exchange `id`, at its first statement, with the
\* record in memory, the stored one, and the loop variables of generic_allocation
\* and of Function.delete.
Frame(hook, id, data, created) ==
    [hook |-> hook, id |-> id, pc |-> 1, data |-> data, old |-> <<>>,
     created |-> created, list |-> <<>>, set |-> <<>>, i |-> 1, total |-> <<>>]

\* A chain of calls is in progress.
Running == call.stack # <<>>

\* The innermost call and the calls that wait for it.
Top == Head(call.stack)

\* The store and the chain after a step that did not raise.
Continue(P, F, X, stack) ==
    /\ Len(stack) <= MaxDepth
    /\ procs' = P
    /\ fns' = F
    /\ excs' = X
    /\ call' = [call EXCEPT !.stack = stack,
                            !.result = IF stack = <<>> THEN "None" ELSE @]
    /\ UNCHANGED <<metadata, before>>

\* The store after a step that raised e: the exception passes through every caller.
Unwind(P, F, X, e) ==
    /\ procs' = P
    /\ fns' = F
    /\ excs' = X
    /\ call' = [call EXCEPT !.stack = <<>>, !.result = e]
    /\ UNCHANGED <<metadata, before>>

\* The innermost call goes on at `top`, calls `new` and goes on at `top` after it, or
\* returns.
Advanced(top) == <<top>> \o Tail(call.stack)

Called(top, new) == <<new, top>> \o Tail(call.stack)

Left == Tail(call.stack)

\* Function.save, lines 430-432, with the test taken as true.
property_changed_always(old, data, label) == TRUE

\* Function.save, lines 430-432: the property named by the processor's `allocation`
\* differs between the stored record and the one in memory.
property_changed(old, data, label) == property_of(old, label) # property_of(data, label)

\* Function.save, line 436: the substitution factor has crossed 0.
substitution_changed(old, data) ==
    (old.substitution_factor > 0) # (data.substitution_factor > 0)

\* Function.create_processing_edge: the production exchange of a new function.
new_processing_edge(X, f, data) ==
    [id |-> new_exchange_id(X), input |-> f, output |-> data.processor,
     amount |-> IF data.type = "product" THEN 1 ELSE -1, type |-> "production"]

\* A step of Function.save().
StepFunctionSave ==
    /\ Running
    /\ Top.hook = "Function.save"
    /\ IF Top.created
       THEN IF Top.pc = 1
            THEN Continue(procs, Insert(fns, Top.id, Top.data), excs,
                          Called([Top EXCEPT !.pc = 4],
                                 Frame("MFExchange.save", Top.id,
                                       new_processing_edge(excs, Top.id, Top.data), TRUE)))
            ELSE Continue(procs, fns, excs, Left)
       ELSE IF Top.pc = 1
       THEN IF save_raises(excs, Top.id) # ""
            THEN Unwind(procs, fns, excs, save_raises(excs, Top.id))
            ELSE \E saved \in {[fns EXCEPT ![Top.id] =
                                  [Top.data EXCEPT !.type = Function_deduct_type(excs, Top.id)]]} :
                 IF processing_edges(excs, Top.id) = {}
                 THEN Unwind(procs, saved, excs, "AttributeError")
                 ELSE \E edge \in {processing_edge(excs, Top.id)} :
                      IF edge.output # Top.data.processor
                      THEN Continue(procs, saved, excs,
                                    Called([Top EXCEPT !.pc = 2, !.old = fns[Top.id]],
                                           [Frame("MFExchange.save", edge.id,
                                                  [edge EXCEPT !.output = Top.data.processor],
                                                  FALSE) EXCEPT !.old = edge]))
                      ELSE Continue(procs, saved, excs,
                                    Advanced([Top EXCEPT !.pc = 2, !.old = fns[Top.id]]))
       ELSE IF Top.pc = 2
       THEN IF property_changed(Top.old, Top.data, get_allocation(procs, Top.data.processor))
            THEN Continue(procs, fns, excs,
                          Called([Top EXCEPT !.pc = 3],
                                 Frame("Process.allocate", Top.data.processor, <<>>, FALSE)))
            ELSE Continue(procs, fns, excs, Advanced([Top EXCEPT !.pc = 3]))
       ELSE IF Top.pc = 3
       THEN IF substitution_changed(Top.old, Top.data)
            THEN Continue(procs, fns, excs,
                          Called([Top EXCEPT !.pc = 4],
                                 Frame("Process.allocate", Top.data.processor, <<>>, FALSE)))
            ELSE Continue(procs, fns, excs, Advanced([Top EXCEPT !.pc = 4]))
       ELSE Continue(procs, fns, excs, Left)

\* A step of MFExchange.save() of a production exchange: the exchange is written,
\* then a created one saves and allocates its process and one with a changed amount
\* allocates it.
StepExchangeSave ==
    /\ Running
    /\ Top.hook = "MFExchange.save"
    /\ IF Top.pc = 1
       THEN \E saved \in {IF Top.created THEN excs \cup {Top.data}
                          ELSE (excs \ {Top.old}) \cup {Top.data}} :
            IF Top.data.input \notin DOMAIN fns
            THEN Unwind(procs, fns, saved, "UnknownObject")
            ELSE IF Top.created
            THEN Continue(procs, fns, saved,
                          Called([Top EXCEPT !.pc = 2],
                                 Frame("Process.save", Top.data.output,
                                       [allocation |-> procs[Top.data.output].allocation],
                                       FALSE)))
            ELSE IF Top.old.amount # Top.data.amount
            THEN Continue(procs, fns, saved,
                          Called([Top EXCEPT !.pc = 3],
                                 Frame("Process.allocate", Top.data.output, <<>>, FALSE)))
            ELSE Continue(procs, fns, saved, Advanced([Top EXCEPT !.pc = 3]))
       ELSE IF Top.pc = 2
       THEN Continue(procs, fns, excs,
                     Called([Top EXCEPT !.pc = 3],
                            Frame("Process.allocate", Top.data.output, <<>>, FALSE)))
       ELSE Continue(procs, fns, excs, Left)

\* A step of MFExchange.delete() of a production exchange: the exchange and its
\* function are deleted, the process saved and allocated.
StepExchangeDelete ==
    /\ Running
    /\ Top.hook = "MFExchange.delete"
    /\ IF Top.pc = 1
       THEN IF Top.data.input \notin DOMAIN fns
            THEN Unwind(procs, fns, excs \ {Top.data}, "UnknownObject")
            ELSE Continue(procs, Remove(fns, Top.data.input), excs \ {Top.data},
                          Called([Top EXCEPT !.pc = 2],
                                 Frame("Process.save", Top.data.output,
                                       [allocation |-> procs[Top.data.output].allocation],
                                       FALSE)))
       ELSE IF Top.pc = 2
       THEN Continue(procs, fns, excs,
                     Called([Top EXCEPT !.pc = 3],
                            Frame("Process.allocate", Top.data.output, <<>>, FALSE)))
       ELSE Continue(procs, fns, excs, Left)

\* A step of Process.save().
StepProcessSave ==
    /\ Running
    /\ Top.hook = "Process.save"
    /\ IF Top.pc = 1
       THEN \E label \in {IF Top.data.allocation = ABSENT THEN metadata.default_allocation
                          ELSE Top.data.allocation} :
            \E saved \in {[procs EXCEPT ![Top.id].type = Process_deduct_type(excs, Top.id),
                                        ![Top.id].allocation = label]} :
            IF get_allocation(procs, Top.id) # label
            THEN Continue(saved, fns, excs,
                          Called([Top EXCEPT !.pc = 2],
                                 Frame("Process.allocate", Top.id, <<>>, FALSE)))
            ELSE Continue(saved, fns, excs, Advanced([Top EXCEPT !.pc = 2]))
       ELSE Continue(procs, fns, excs, Left)

\* A step of Process.allocate() and of the generic_allocation it runs: at 1 the
\* tests and the strategy, at 2 the partition of the functions, at 3 the factors.
StepAllocate ==
    /\ Running
    /\ Top.hook = "Process.allocate"
    /\ IF Top.pc = 1
       THEN IF procs[Top.id].skip_allocation \/ ~multifunctional(excs, Top.id)
            THEN Continue(procs, fns, excs, Left)
            ELSE \E label \in {resolve_label(procs, metadata, Top.id, NONE)} :
                 IF label \in {NONE, ""}
                 THEN Unwind(procs, fns, excs, "ValueError")
                 ELSE IF \E x \in production(excs, Top.id) : x.input \notin DOMAIN fns
                 THEN Unwind(procs, fns, excs, "UnknownObject")
                 ELSE Continue(procs, fns, excs,
                               Advanced([Top EXCEPT !.pc = 2, !.data = alloc_function(label),
                                                    !.list = functions(excs, Top.id)]))
       ELSE IF Top.pc = 2
       THEN IF Top.i > Len(Top.list)
            THEN \E values \in {getter_values(Top.data, fns, excs, Top.set)} :
                 IF first_raised(values) # ""
                 THEN Unwind(procs, fns, excs, first_raised(values))
                 ELSE \E total \in {total_of(values)} :
                      IF total[1] = 0
                      THEN Unwind(procs, fns, excs, "ZeroDivisionError")
                      ELSE Continue(procs, fns, excs,
                                    Advanced([Top EXCEPT !.pc = 3, !.i = 1,
                                                         !.total = total]))
            ELSE \E f \in {Top.list[Top.i]} :
                 IF fns[f].substitution_factor > 0
                 THEN IF fns[f].allocation_factor = <<>>
                      THEN Unwind(procs, fns, excs, "KeyError")
                      ELSE IF fns[f].allocation_factor[1] > 0
                      THEN Continue(procs, fns, excs,
                                    Called([Top EXCEPT !.i = @ + 1],
                                           Frame("Function.save", f,
                                                 [fns[f] EXCEPT !.allocation_factor = FZero],
                                                 FALSE)))
                      ELSE Continue(procs, fns, excs, Advanced([Top EXCEPT !.i = @ + 1]))
                 ELSE Continue(procs, fns, excs,
                               Advanced([Top EXCEPT !.i = @ + 1, !.set = Append(@, f)]))
       ELSE IF Top.i > Len(Top.set)
       THEN Continue(procs, fns, excs, Left)
       ELSE \E f \in {Top.set[Top.i]} :
            Continue(procs, fns, excs,
                     Called([Top EXCEPT !.i = @ + 1],
                            Frame("Function.save", f,
                                  [fns[f] EXCEPT !.allocation_factor =
                                      FDiv(getter(Top.data, fns, excs, f).value, Top.total)],
                                  FALSE)))

\* A step of Function.delete(): the production exchanges into the function are
\* deleted one after the other.
StepFunctionDelete ==
    /\ Running
    /\ Top.hook = "Function.delete"
    /\ IF Top.i > Len(Top.list)
       THEN Continue(procs, fns, excs, Left)
       ELSE IF \E x \in excs : x.id = Top.list[Top.i]
       THEN Continue(procs, fns, excs,
                     Called([Top EXCEPT !.i = @ + 1],
                            Frame("MFExchange.delete", Top.list[Top.i],
                                  CHOOSE x \in excs : x.id = Top.list[Top.i], FALSE)))
       ELSE Continue(procs, fns, excs, Advanced([Top EXCEPT !.i = @ + 1]))

\* A caller starts an operation: the call of its hook is the only one in progress.
Begin(op, frame) ==
    /\ ~Running
    /\ call.nth < MaxChains
    /\ call' = [NoCall EXCEPT !.op = op, !.nth = call.nth + 1, !.stack = <<frame>>]
    /\ before' = fns
    /\ UNCHANGED <<procs, fns, excs, metadata>>

\* The operations of the callers, as in NextStore, and the steps of the hooks.
BeginCreateFunction(p, type, properties) ==
    Begin("create_function",
          Frame("Function.save", new_function_id(fns, excs),
                [processor |-> p, type |-> type, properties |-> properties,
                 allocation_factor |-> <<>>, substitution_factor |-> 0], TRUE))

BeginSaveFunction(f, processor, substitution_factor, mass) ==
    Begin("save_function",
          Frame("Function.save", f,
                [fns[f] EXCEPT !.processor = processor,
                               !.substitution_factor = substitution_factor,
                               !.properties.mass = mass], FALSE))

BeginDeleteFunction(f) ==
    Begin("delete_function",
          [Frame("Function.delete", f, <<>>, FALSE) EXCEPT
               !.list = Ascending({x.id : x \in processing_edges(excs, f)})])

BeginSaveEdge(x, amount) ==
    Begin("save_edge",
          [Frame("MFExchange.save", x.id, [x EXCEPT !.amount = amount], FALSE) EXCEPT
               !.old = x])

BeginDeleteEdge(x) == Begin("delete_edge", Frame("MFExchange.delete", x.id, x, FALSE))

BeginSaveProcess(p, allocation) ==
    Begin("save_process", Frame("Process.save", p, [allocation |-> allocation], FALSE))

StepHooks ==
    \/ StepFunctionSave
    \/ StepExchangeSave
    \/ StepExchangeDelete
    \/ StepProcessSave
    \/ StepAllocate
    \/ StepFunctionDelete

NextHooks ==
    \/ \E p \in DOMAIN procs : \E type \in {"product", "waste"} : \E mass \in StoreMass :
           BeginCreateFunction(p, type, Props(mass, Missing))
    \/ \E f \in DOMAIN fns :
           \/ BeginSaveFunction(f, fns[f].processor, fns[f].substitution_factor,
                                fns[f].properties.mass)
           \/ \E processor \in DOMAIN procs \ {fns[f].processor} :
                  BeginSaveFunction(f, processor, fns[f].substitution_factor,
                                    fns[f].properties.mass)
           \/ \E substitution_factor \in {0, 2} \ {fns[f].substitution_factor} :
                  BeginSaveFunction(f, fns[f].processor, substitution_factor,
                                    fns[f].properties.mass)
           \/ \E mass \in StoreMass \ {fns[f].properties.mass, Missing} :
                  BeginSaveFunction(f, fns[f].processor, fns[f].substitution_factor, mass)
    \/ \E f \in DOMAIN fns : BeginDeleteFunction(f)
    \/ \E x \in excs : \E amount \in StoreAmounts : BeginSaveEdge(x, amount)
    \/ \E x \in excs : BeginDeleteEdge(x)
    \/ \E p \in DOMAIN procs : \E allocation \in StoreLabels \cup {procs[p].allocation} :
           BeginSaveProcess(p, allocation)
    \/ StepHooks

\* A collection as written, as in InitStore, and the same after process 1 was
\* allocated by Process.allocate().
InitHooks ==
    /\ \E t \in StoreCollections : \E allocation \in {ABSENT, "mass"} :
       \E skip \in BOOLEAN : \E allocated \in BOOLEAN :
           /\ excs = {[id |-> i, input |-> i, output |-> 1, amount |-> t[i].amount,
                       type |-> "production"] : i \in DOMAIN t}
           /\ procs = [q \in {1, 2} |->
                       [type |-> Process_deduct_type(excs, q), allocation |-> allocation,
                        skip_allocation |-> skip /\ q = 1]]
           /\ metadata = [default_allocation |-> "equal"]
           /\ \E written \in {[i \in DOMAIN t |->
                                  [processor |-> 1, type |-> Function_deduct_type(excs, i),
                                   properties |-> t[i].properties,
                                   allocation_factor |-> <<>>,
                                   substitution_factor |-> 0]]} :
                  fns = IF allocated
                        THEN allocate(procs, written, excs, metadata, 1, NONE).fns
                        ELSE written
    /\ call = NoCall
    /\ before = fns

\* The operations on a collection, run hook by hook; a call in progress takes its
\* next step, the program being a single thread that runs every call to its end.
SpecHooks == InitHooks /\ [][NextHooks]_vars /\ WF_vars(StepHooks)

(***************************************************************************)
(* The property checks (custom_allocation.py).                             *)
(***************************************************************************)

\* PropertyMessage: level, process_id, function_id and message_type.
PropertyMessage(level, process_id, function_id, message_type) ==
    [level |-> level, process_id |-> process_id, function_id |-> function_id,
     message_type |-> message_type]

\* isinstance(value, Number): a float, an int or a bool, bool being a subclass of int.
is_Number(prop) == prop.kind \in {"float", "int", "bool"}

\* The body of the loop of process_property_errors with a bool taken for a number.
function_property_errors_bool_numeric(F, p, f, property_label) ==
    IF property_of(F[f], property_label).kind = "missing"
    THEN <<PropertyMessage("WARNING", p, f, "MISSING_FUNCTION_PROPERTY")>>
    ELSE IF ~is_Number(property_of(F[f], property_label))
    THEN <<PropertyMessage("CRITICAL", p, f, "NONNUMERIC_FUNCTION_PROPERTY")>>
    ELSE <<>>

\* The body of the loop of process_property_errors: the messages appended for the
\* function f of process p.
function_property_errors(F, p, f, property_label) ==
    IF property_of(F[f], property_label).kind = "missing"
    THEN <<PropertyMessage("WARNING", p, f, "MISSING_FUNCTION_PROPERTY")>>
    ELSE IF \/ ~is_Number(property_of(F[f], property_label))
            \/ property_of(F[f], property_label).kind = "bool"
    THEN <<PropertyMessage("CRITICAL", p, f, "NONNUMERIC_FUNCTION_PROPERTY")>>
    ELSE <<>>

\* The loop of process_property_errors over the functions fs of process p.
RECURSIVE functions_property_errors(_, _, _, _)
functions_property_errors(F, p, fs, property_label) ==
    IF fs = <<>> THEN <<>>
    ELSE function_property_errors(F, p, Head(fs), property_label)
         \o functions_property_errors(F, p, Tail(fs), property_label)

\* A node handed to a call: its class and its id.
Node(class, id) == [class |-> class, id |-> id]

\* process_property_errors(process, property_label)
process_property_errors(F, X, process, property_label) ==
    IF process.class # "Process" THEN Raised("TypeError")
    ELSE Returned(functions_property_errors(F, process.id, functions(X, process.id),
                                            property_label))

\* The loop of database_property_errors over the processes ps.
RECURSIVE processes_property_errors(_, _, _, _)
processes_property_errors(F, X, ps, property_label) ==
    IF ps = <<>> THEN <<>>
    ELSE process_property_errors(F, X, Node("Process", Head(ps)), property_label).value
         \o processes_property_errors(F, X, Tail(ps), property_label)

\* database_property_errors(database_label, property_label)
database_property_errors(P, F, X, property_label) ==
    processes_property_errors(F, X, Ascending(DOMAIN P), property_label)

\* The keys of the properties of the functions of the collection.
all_properties(F) ==
    {label \in PropLabels : \E f \in DOMAIN F : property_of(F[f], label).kind # "missing"}

\* The message type list_available_properties gives a label with the errors found.
validity(errors) ==
    IF errors = <<>> THEN "ALL_VALID"
    ELSE IF \E i \in DOMAIN errors :
                errors[i].message_type = "NONNUMERIC_FUNCTION_PROPERTY"
    THEN "NONNUMERIC_PROPERTY"
    ELSE "MISSING_PROPERTY"

\* list_available_properties(database_label, target_process), target 0 being None.
list_available_properties(P, F, X, target_process) ==
    [label \in all_properties(F) |->
        validity(IF target_process # 0
                 THEN process_property_errors(F, X, Node("Process", target_process),
                                              label).value
                 ELSE database_property_errors(P, F, X, label))]

\* A caller runs process_property_errors on a node.
ProcessPropertyErrors(node, property_label) ==
    \E r \in {process_property_errors(fns, excs, node, property_label)} :
        /\ call' = [NoCall EXCEPT !.op = "process_property_errors", !.node = node.id,
                                  !.class = node.class, !.label = property_label,
                                  !.result = r.raised, !.messages = r.value]
        /\ before' = fns
        /\ UNCHANGED <<procs, fns, excs, metadata>>

\* A caller runs database_property_errors.
DatabasePropertyErrors(property_label) ==
    /\ call' = [NoCall EXCEPT !.op = "database_property_errors",
                              !.label = property_label,
                              !.messages = database_property_errors(procs, fns, excs,
                                                                    property_label)]
    /\ before' = fns
    /\ UNCHANGED <<procs, fns, excs, metadata>>

\* A caller runs list_available_properties for the collection or for one process.
ListAvailableProperties(target_process) ==
    /\ call' = [NoCall EXCEPT !.op = "list_available_properties",
                              !.process = target_process,
                              !.available = list_available_properties(procs, fns, excs,
                                                                      target_process)]
    /\ before' = fns
    /\ UNCHANGED <<procs, fns, excs, metadata>>

\* The values stored for a property: none, the structured record, a float, an int,
\* a bool and a string.
PropertyKinds ==
    {Missing, PropVal("record", 5, "absent"), PropVal("float", 2, "absent"),
     PropVal("int", 1, "absent"), PropVal("bool", 1, "absent"),
     PropVal("str", 0, "absent")}

\* The properties written on a function: any value for mass, and for the second
\* property none, the record or a float.
WrittenProperties ==
    {Props(m, e) : m \in PropertyKinds,
                   e \in {Missing, PropVal("record", 5, "absent"),
                          PropVal("float", 2, "absent")}}

\* A collection as written: process 1 with the functions 1..n and process 2 with
\* the function n + 1, function i having the production exchange i of amount 4.
InitProperties ==
    /\ \E n \in 1..2 : \E w \in [1..n -> WrittenProperties] : \E m \in PropertyKinds :
           /\ excs = {[id |-> i, input |-> i, output |-> IF i > n THEN 2 ELSE 1,
                        amount |-> 4, type |-> "production"] : i \in 1..(n + 1)}
           /\ fns = [i \in 1..(n + 1) |->
                       [processor |-> IF i > n THEN 2 ELSE 1, type |-> "product",
                        properties |-> IF i > n THEN Props(m, m) ELSE w[i],
                        allocation_factor |-> <<>>, substitution_factor |-> 0]]
           /\ procs = [q \in {1, 2} |->
                         [type |-> Process_deduct_type(excs, q), allocation |-> ABSENT,
                          skip_allocation |-> FALSE]]
           /\ metadata = [default_allocation |-> "equal"]
    /\ call = NoCall
    /\ before = fns

\* The labels the checks are asked for: the two the functions may carry and one
\* none of them has.
CheckedLabels == PropLabels \cup {"price"}

NextProperties ==
    \/ \E p \in DOMAIN procs : \E l \in CheckedLabels :
           ProcessPropertyErrors(Node("Process", p), l)
    \/ \E f \in DOMAIN fns : \E l \in CheckedLabels :
           ProcessPropertyErrors(Node("Function", f), l)
    \/ \E l \in CheckedLabels : DatabasePropertyErrors(l)
    \/ \E target_process \in {0} \cup DOMAIN procs : ListAvailableProperties(target_process)

\* The property checks run on a collection as written.
SpecProperties == InitProperties /\ [][NextProperties]_vars

(***************************************************************************)
(* The claims.                                                             *)
(***************************************************************************)

\* The last call was Process.allocate.
Allocating == call.op = "allocate"

\* The last call was Process.allocate and it ran generic_allocation to its end.
Completed == Allocating /\ call.result = "None"

Substituted(f) == fns[f].substitution_factor > 0

\* The functions of process p that are not substituted, in the order of the process.
Allocatable(p) == SelectSeq(functions(excs, p), LAMBDA f : ~Substituted(f))

\* The factors now stored for the functions of the list.
Factors(F, set) == [i \in 1..Len(set) |-> F[set[i]].allocation_factor]

Assigned(F, set) == \A i \in 1..Len(set) : F[set[i]].allocation_factor # <<>>

\* C1 as claimed: after allocate() has completed on a multifunctional process, the
\* factors of the functions that are not substituted sum to exactly 1 and every
\* function with substitution_factor > 0 has the factor 0.
C1_SumOneSubstitutedZero ==
    Completed =>
        /\ Assigned(fns, Allocatable(call.node))
        /\ FSum(Factors(fns, Allocatable(call.node))) = FOne
        /\ \A f \in DOMAIN fns :
               (fns[f].processor = call.node /\ Substituted(f))
                   => fns[f].allocation_factor = FZero

\* The values get_property_value gives for the functions of the list.
PropertyValues(set, label) ==
    [i \in 1..Len(set) |-> get_property_value(fns, excs, set[i], label).value]

\* C2: after allocation by a property (a label that is no registered strategy), the
\* factor of every function that is not substituted is its property value divided
\* by the sum of the property values of the functions that are not substituted.
C2_PropertyShares ==
    (Completed /\ call.strategy \notin {"equal", "manual"}) =>
        \A f \in DOMAIN fns :
            (fns[f].processor = call.node /\ ~Substituted(f)) =>
                fns[f].allocation_factor =
                    FDiv(get_property_value(fns, excs, f, call.strategy).value,
                         FSum(PropertyValues(Allocatable(call.node), call.strategy)))

\* A property allocation completed next to a substituted function, with unequal shares.
C2_Witness ==
    /\ Completed
    /\ call.strategy = "mass"
    /\ \E f \in DOMAIN fns : Substituted(f)
    /\ \E f, g \in DOMAIN fns :
           /\ ~Substituted(f) /\ ~Substituted(g)
           /\ fns[f].allocation_factor # fns[g].allocation_factor

\* C3: after allocation by `equal`, each of the n functions that are not substituted
\* has the factor 1/n, whatever its former factor, its properties and its amount.
C3_EqualShares ==
    (Completed /\ call.strategy = "equal") =>
        \A f \in DOMAIN fns :
            (fns[f].processor = call.node /\ ~Substituted(f)) =>
                fns[f].allocation_factor =
                    FDiv(FOne, FromInt(Len(Allocatable(call.node))))

\* `equal` completed over three functions whose former factors, properties and
\* amounts differed.
C3_Witness ==
    /\ Completed
    /\ call.strategy = "equal"
    /\ Len(Allocatable(call.node)) = 3
    /\ \E f, g \in DOMAIN before :
           /\ ~Substituted(f) /\ ~Substituted(g)
           /\ before[f].allocation_factor # before[g].allocation_factor
           /\ before[f].properties # before[g].properties

Unchanged_factors == \A f \in DOMAIN fns : fns[f].allocation_factor = before[f].allocation_factor

\* C4 as claimed: a second allocate() with the same strategy, nothing changed in
\* between, leaves every factor as the first run left it, for every strategy.
C4_Idempotent == (Completed /\ call.again) => Unchanged_factors

\* C4 as amended: the same for `equal` and for a property; for `manual` whenever
\* the factors the first run left sum to exactly 1.0 in floating point, the total
\* the second run divides by.
C4_IdempotentUpToRounding ==
    (/\ Completed
     /\ call.again
     /\ call.strategy = "manual"
            => FSum(Factors(before, Allocatable(call.node))) = FOne)
        => Unchanged_factors

\* A second run of `manual` over factors that the first run had changed.
C4_Witness ==
    /\ Completed
    /\ call.again
    /\ call.strategy = "manual"
    /\ FSum(Factors(before, Allocatable(call.node))) = FOne
    /\ \E f \in DOMAIN fns : ~Substituted(f) /\ fns[f].allocation_factor # FOne

\* The getter values the last allocation read for its allocation set.
GetterValues_read ==
    getter_values(alloc_function(call.strategy), before, excs, Allocatable(call.node))

\* The last call was an allocation that got as far as the total: the process was
\* allocated, a label was found, the partition read a factor on every substituted
\* function and every getter gave a value.
ReachedTotal ==
    /\ Allocating
    /\ call.result \notin {"NoAllocationNeeded", "ValueError"}
    /\ \A f \in DOMAIN before :
           before[f].substitution_factor > 0 => before[f].allocation_factor # <<>>
    /\ \A i \in 1..Len(GetterValues_read) : GetterValues_read[i].raised = ""

ZeroTotal ==
    FSum([i \in 1..Len(GetterValues_read) |-> GetterValues_read[i].value]) = FZero

\* C5: whenever the getter values of the allocation set sum to zero, generic_allocation
\* fails with ZeroDivisionError and the factor of no function of the allocation set
\* is written.
C5_ZeroTotalFails ==
    (ReachedTotal /\ ZeroTotal) =>
        /\ call.result = "ZeroDivisionError"
        /\ \A f \in DOMAIN fns :
               ~Substituted(f) => fns[f].allocation_factor = before[f].allocation_factor

\* Allocation by a property whose value is zero on each of several functions.
C5_Witness ==
    /\ ReachedTotal
    /\ ZeroTotal
    /\ call.strategy = "mass"
    /\ Len(Allocatable(call.node)) >= 2

\* The last call was get_property_value.
Getting == call.op = "get_property_value"

\* The value stored for the property the last get_property_value asked for.
Stored ==
    IF call.label \in DOMAIN fns[call.node].properties
    THEN fns[call.node].properties[call.label]
    ELSE Missing

C7_BareNumberReturned ==
    (Getting /\ Stored.kind \in {"float", "int"}) =>
        /\ call.result = "value"
        /\ call.value = FromInt(Stored.amount)

\* C8: on a process with skip_allocation set or with at most one production edge,
\* allocate() returns NoAllocationNeeded and leaves every function as it was,
\* whatever label is passed.
C8_NoAllocationNeeded ==
    (/\ Allocating
     /\ \/ procs[call.node].skip_allocation
        \/ Cardinality(production(excs, call.node)) <= 1)
        => (call.result = "NoAllocationNeeded" /\ fns = before)

\* allocate("equal") on a skipped process of several functions with unequal factors.
C8_Witness ==
    /\ Allocating
    /\ call.label = "equal"
    /\ procs[call.node].skip_allocation
    /\ Cardinality(production(excs, call.node)) > 1
    /\ \E f, g \in DOMAIN fns : fns[f].allocation_factor # fns[g].allocation_factor

NonEmpty(label) == label \notin {NONE, ""}

\* C9: an explicit label is used before the process's own `allocation`, and that
\* before the collection's `default_allocation`; when none of the three is a
\* non-empty label the call fails with ValueError and no function is written.
C9_LabelPrecedence ==
    (/\ Allocating
     /\ ~procs[call.node].skip_allocation
     /\ Cardinality(production(excs, call.node)) > 1) =>
        /\ NonEmpty(call.label) => call.strategy = call.label
        /\ (call.label = NONE /\ NonEmpty(procs[call.node].allocation))
               => call.strategy = procs[call.node].allocation
        /\ (/\ call.label = NONE
            /\ ~NonEmpty(procs[call.node].allocation)
            /\ NonEmpty(metadata.default_allocation))
               => call.strategy = metadata.default_allocation
        /\ (/\ ~NonEmpty(call.label)
            /\ ~NonEmpty(procs[call.node].allocation)
            /\ ~NonEmpty(metadata.default_allocation))
               => (call.result = "ValueError" /\ fns = before)
        /\ call.result # "ValueError" => NonEmpty(call.strategy)

\* No explicit label, the process says mass and the collection says manual: the
\* allocation ran by mass.
C9_Witness ==
    /\ Completed
    /\ call.label = NONE
    /\ procs[call.node].allocation = "mass"
    /\ metadata.default_allocation = "manual"
    /\ call.strategy = "mass"
    /\ fns # before

\* The strategy the claim assigns to a label: the registered one for a registered
\* name, allocation by the property of that name otherwise.
StrategyNamed(label) ==
    IF label \in {"equal", "manual"} THEN [getter |-> label, property_label |-> ""]
    ELSE [getter |-> "property", property_label |-> label]

\* C10: a resolved label that is no key of the registry is taken as a property name
\* and the process allocated by that property; a registered key applies the
\* registered strategy, also when the functions carry a property of that name.
C10_RegistryThenProperty ==
    (Allocating /\ call.result \notin {"NoAllocationNeeded", "ValueError"}) =>
        LET expected == generic_allocation(before, excs, call.node, StrategyNamed(call.strategy))
        IN  /\ fns = expected.fns
            /\ call.result = IF expected.raised = "" THEN "None" ELSE expected.raised

\* `equal` applied to functions that carry a property named equal with unequal
\* values: the factors are equal.
C10_Witness ==
    /\ Completed
    /\ call.strategy = "equal"
    /\ \E f, g \in DOMAIN fns :
           /\ fns[f].properties["equal"].kind = "record"
           /\ fns[g].properties["equal"].kind = "record"
           /\ fns[f].properties["equal"].amount # fns[g].properties["equal"].amount
    /\ \A f, g \in DOMAIN fns : fns[f].allocation_factor = fns[g].allocation_factor

\* C11 as claimed: in every state the node and edge operations and Process.copy
\* reach, every stored function has exactly one production edge into it, and the
\* output of that edge is the function's processor.
C11_OneProcessingEdge ==
    \A f \in DOMAIN fns :
        \E x \in excs : processing_edges(excs, f) = {x} /\ x.output = fns[f].processor

DeletedFunction == call.op \in {"delete_function", "delete_edge"}

\* C12: after Function.delete() and after the deletion of a production edge, neither
\* the function nor a production edge into it exists, while the owning process
\* and every other function still exist.
C12_DeletedTogether ==
    DeletedFunction =>
        /\ call.function \notin DOMAIN fns
        /\ processing_edges(excs, call.function) = {}
        /\ call.process \in DOMAIN procs
        /\ \A g \in DOMAIN before \ {call.function} : g \in DOMAIN fns

\* Function.delete() on one of three functions of a process: the two others stay.
C12_Witness ==
    /\ call.op = "delete_function"
    /\ Cardinality(DOMAIN before) = 3
    /\ Cardinality(DOMAIN fns) = 2
    /\ Cardinality(production(excs, call.process)) = 2

\* The type the claim assigns to a process of n production edges.
TypeOfCount(n) ==
    IF n > 1 THEN "multifunctional" ELSE IF n = 1 THEN "process" ELSE "nonfunctional"

\* C13: after Process.save(), and after a production edge of the process was created
\* or deleted, the stored type of the process is the one of its current number of
\* production edges.
C13_TypeOfEdgeCount ==
    call.op \in {"save_process", "create_function", "delete_function", "delete_edge"} =>
        procs[call.process].type = TypeOfCount(Cardinality(production(excs, call.process)))

\* The deletion of one of two production edges: the process is stored as `process`.
C13_Witness ==
    /\ call.op = "delete_edge"
    /\ Cardinality({f \in DOMAIN before : before[f].processor = call.process}) = 2
    /\ Cardinality(production(excs, call.process)) = 1
    /\ procs[call.process].type = "process"

\* C14 as claimed: after the amount of a production edge was changed and saved, the
\* stored type of its function is product for an amount >= 0 and waste for an
\* amount < 0, in a process of one function as in a multifunctional one.
C14_TypeOfSign ==
    (call.op = "save_edge" /\ call.result = "None" /\ call.amount # call.amount_was) =>
        fns[call.function].type = IF call.amount >= 0 THEN "product" ELSE "waste"

\* x is 1 within four units of rounding.
NearOne(x) ==
    LET d == FAdd(x, FromInt(-1))
        k == d[2] + MantBits - 3
    IN  IF k >= 0 THEN Abs(d[1]) * Pow2(k) <= 1 ELSE Abs(d[1]) <= Pow2(-k)

\* One of the four events the claim names has run to its end on the process.
AllocationEvent ==
    /\ call.result = "None"
    /\ \/ call.op = "save_process" /\ get_allocation(procs, call.process) # call.was
       \/ call.op = "create_function"
       \/ call.op \in {"delete_function", "delete_edge"}
       \/ call.op = "save_edge" /\ call.amount # call.amount_was

\* The strategy the process is allocated by when no label is passed.
CurrentStrategy(p) == resolve_label(procs, metadata, p, NONE)

Processed == call.op = "process"

\* The functions of process p as the tables have them: the nodes whose processor is p.
FunctionsOf(p) == {f \in DOMAIN fns : fns[f].processor = p}

\* The exchanges of the given type whose output is p.
ExchangesOf(p, type) == {x \in excs : x.output = p /\ x.type = type}

\* The entries of a matrix made from exchange x for the column of function f.
EntriesOf(matrix, x, f) == {e \in matrix : e.exchange = x.id /\ e.col = f}

\* The entries of the matrix, for one flip, are exactly one per exchange of the type
\* and function of the exchange's process, with row = the exchange's input and
\* amount = the exchange's amount times the function's factor, a missing factor
\* counting as `missing`.
AllocatedEntries(matrix, type, flip, missing) ==
    /\ \A p \in DOMAIN procs : \A x \in ExchangesOf(p, type) : \A f \in FunctionsOf(p) :
           /\ Cardinality(EntriesOf(matrix, x, f)) = 1
           /\ \A e \in EntriesOf(matrix, x, f) :
                  /\ e.row = x.input
                  /\ e.flip = flip
                  /\ e.amount = FMul(IF fns[f].allocation_factor = <<>> THEN missing
                                     ELSE fns[f].allocation_factor, FromInt(x.amount))
    /\ \A e \in matrix : e.flip = flip =>
           \E p \in DOMAIN procs : \E x \in ExchangesOf(p, type) :
               e.exchange = x.id /\ e.col \in FunctionsOf(p)

\* C16 as claimed: every technosphere exchange of a process yields one consumption
\* entry per function of that process, with amount = exchange amount times the
\* function's allocation factor, a function without a factor counting as factor 0,
\* and flip = true.
C16_ConsumptionMissingZero ==
    Processed => AllocatedEntries(call.tech_matrix, "technosphere", TRUE, FZero)

\* C16 amended: every technosphere exchange of a process yields one consumption
\* entry per function of that process, with amount = exchange amount times the
\* function's allocation factor, a function without a factor counting as factor 1,
\* and flip = true.
C16_ConsumptionMissingOne ==
    Processed => AllocatedEntries(call.tech_matrix, "technosphere", TRUE, FOne)

\* C16 witness: a collection was processed in which a technosphere exchange is spread
\* over two functions that carry a factor other than 1 and another belongs to a
\* function without a factor, whose entry has the whole amount.
C16_Witness ==
    /\ Processed
    /\ \E p \in DOMAIN procs : \E x \in ExchangesOf(p, "technosphere") :
       \E f \in FunctionsOf(p) : \E g \in FunctionsOf(p) \ {f} :
           /\ fns[f].allocation_factor \notin {<<>>, FOne, FZero}
           /\ fns[g].allocation_factor \notin {<<>>, FOne, FZero}
           /\ \E e \in EntriesOf(call.tech_matrix, x, f) : e.amount # FromInt(x.amount)
    /\ \E p \in DOMAIN procs : \E x \in ExchangesOf(p, "technosphere") :
       \E f \in FunctionsOf(p) :
           /\ fns[f].allocation_factor = <<>>
           /\ \E e \in EntriesOf(call.tech_matrix, x, f) :
                  e.amount = FromInt(x.amount) /\ e.flip

\* x is a within four units of rounding (a # 0).
NearTo(x, a) == NearOne(FDiv(x, a))

\* The amounts of the entries made from exchange x for the functions of the list.
EntryAmounts(matrix, x, set) ==
    [i \in 1..Len(set) |-> (CHOOSE e \in EntriesOf(matrix, x, set[i]) : TRUE).amount]

\* The functions of p that are not substituted carry factors that sum to 1 within
\* rounding, as an allocation leaves them, or p has one function and it has no factor.
FactorsSumToOne(p) ==
    \/ /\ Allocatable(p) # <<>>
       /\ Assigned(fns, Allocatable(p))
       /\ NearOne(FSum(Factors(fns, Allocatable(p))))
    \/ /\ Len(functions(excs, p)) = 1
       /\ ~Assigned(fns, Allocatable(p))

ProductionAmount(f) ==
    (CHOOSE x \in processing_edges(excs, f) : x.output = fns[f].processor).amount

\* C18 as claimed: for every function with substitution_factor > 0 and a substitute,
\* the technosphere matrix built for the collection has a credit entry with row = the
\* substitute, col = the function, flip = true and amount = (own production amount /
\* the substitute's production amount) / substitution_factor.
C18_SubstitutionCredit ==
    Processed =>
        \A f \in DOMAIN fns :
            fns[f].substitution_factor > 0 /\ fns[f].substitute # NA =>
                \E e \in call.tech_matrix :
                    /\ e.row = fns[f].substitute
                    /\ e.col = f
                    /\ e.flip
                    /\ e.amount = FDiv(FDiv(FromInt(ProductionAmount(f)),
                                            FromInt(ProductionAmount(fns[f].substitute))),
                                       FromInt(fns[f].substitution_factor))

\* C19: in every entry of the technosphere and the biosphere matrix built, the
\* production entries included, col is the id of a function, a node whose processor
\* is set, and never the id of a process, although the exchanges have the process as
\* their output.
C19_ColIsFunction ==
    Processed =>
        \A e \in call.tech_matrix \cup call.bio_matrix :
            /\ e.col \in DOMAIN fns
            /\ fns[e.col].processor # NA
            /\ e.col \notin DOMAIN procs

\* C19 witness: a collection was processed whose matrices have a consumption, a
\* production and a biosphere entry, each made from an exchange whose output is a
\* process and not the entry's col.
C19_Witness ==
    /\ Processed
    /\ \E e \in call.tech_matrix : \E x \in excs :
           e.flip /\ x.id = e.exchange /\ x.output \in DOMAIN procs /\ x.output # e.col
    /\ \E e \in call.tech_matrix : \E x \in excs :
           ~e.flip /\ x.id = e.exchange /\ x.output \in DOMAIN procs /\ x.output # e.col
    /\ \E e \in call.bio_matrix : \E x \in excs :
           x.id = e.exchange /\ x.output \in DOMAIN procs /\ x.output # e.col

\* The production exchanges that link function f to its processor.
EdgesToProcessor(f) == {x \in processing_edges(excs, f) : x.output = fns[f].processor}

\* The production entries of the technosphere matrix: those that are not flipped.
ProductionEntries == {e \in call.tech_matrix : ~e.flip}

\* C20: the production entries are exactly one per function that has a processor and
\* a processing edge, with row = col = the function, amount = the amount of the
\* processing edge, whatever the function's factor, and flip = false.
C20_ProductionDiagonal ==
    Processed =>
        /\ \A f \in DOMAIN fns :
               fns[f].processor # NA /\ EdgesToProcessor(f) # {} =>
                   /\ Cardinality({e \in ProductionEntries : e.col = f}) = 1
                   /\ \A e \in ProductionEntries : e.col = f =>
                          /\ e.row = f
                          /\ e.amount = FromInt(ProductionAmount(f))
        /\ \A e \in ProductionEntries :
               /\ e.col \in DOMAIN fns
               /\ EdgesToProcessor(e.col) # {}
               /\ e.exchange \in {x.id : x \in EdgesToProcessor(e.col)}

\* C20 witness: a collection was processed in which a function of production 4 has a
\* factor other than 1 and its production entry has the amount 4, and a waste has its
\* negative amount on the diagonal.
C20_Witness ==
    /\ Processed
    /\ \E f \in DOMAIN fns : \E e \in ProductionEntries :
           /\ fns[f].allocation_factor \notin {<<>>, FOne}
           /\ ProductionAmount(f) = 4
           /\ e.col = f /\ e.row = f /\ e.amount = FromInt(4)
    /\ \E f \in DOMAIN fns : \E e \in ProductionEntries :
           /\ fns[f].type = "waste"
           /\ e.col = f /\ e.row = f /\ e.amount = FromInt(-3)

\* The entries of the two matrices that were allocated: the consumption and the
\* biosphere entries.
AllocatedRows == {e \in call.tech_matrix : e.flip} \cup call.bio_matrix

\* The stored exchange an entry was made from.
ExchangeOf(e) == CHOOSE x \in excs : x.id = e.exchange

\* The factor an entry was allocated with, a missing one counting as 1.
FactorOf(e) ==
    IF fns[e.col].allocation_factor = <<>> THEN FOne ELSE fns[e.col].allocation_factor

\* The exchange of the entry had no loc and got its amount as the default.
LocDefaulted(e) ==
    /\ ExchangeOf(e).loc = NaN
    /\ ExchangeOf(e).uncertainty_type \in {NA, UndefinedUncertainty_id, NoUncertainty_id}

\* The loc an entry's exchange had when it was allocated.
LocBefore(e) ==
    IF LocDefaulted(e) THEN FromInt(ExchangeOf(e).amount) ELSE ExchangeOf(e).loc

\* The eight families the claim names, and the six among them that are neither
\* undefined nor none.
EightFamilies ==
    {NormalUncertainty_id, UniformUncertainty_id, TriangularUncertainty_id,
     WeibullUncertainty_id, GammaUncertainty_id, GeneralizedExtremeValueUncertainty_id,
     UndefinedUncertainty_id, NoUncertainty_id}

\* Entry e has loc, scale, minimum and maximum of its exchange times its factor.
ScaledByFactor(e) ==
    /\ e.loc = Scaled(LocBefore(e), FactorOf(e))
    /\ e.scale = Scaled(ExchangeOf(e).scale, FactorOf(e))
    /\ e.minimum = Scaled(ExchangeOf(e).minimum, FactorOf(e))
    /\ e.maximum = Scaled(ExchangeOf(e).maximum, FactorOf(e))

\* C21 as claimed: every allocated row of a normal, uniform, triangular, weibull,
\* gamma, extreme-value, undefined or none distribution has loc, scale, minimum and
\* maximum multiplied by its allocation factor (a missing one counting as 1), and a
\* row of undefined uncertainty whose loc was defaulted to its amount has loc equal to
\* its allocated amount.
C21_StandardFamiliesScaled ==
    Processed =>
        \A e \in AllocatedRows :
            e.uncertainty_type \in EightFamilies =>
                /\ ScaledByFactor(e)
                /\ e.uncertainty_type = UndefinedUncertainty_id /\ LocDefaulted(e) =>
                       e.loc = e.amount

\* The allocated rows of one exchange type.
AllocatedRowsOf(type) ==
    IF type = "technosphere" THEN {e \in call.tech_matrix : e.flip} ELSE call.bio_matrix

\* A row of a family that is neither one of the eight standard ones nor lognormal.
Unsupported(e) == e.uncertainty_type \notin EightFamilies \cup {LognormalUncertainty_id}

\* Entry e has the distribution parameters of its exchange.
Untouched(e) ==
    /\ e.loc = LocBefore(e)
    /\ e.scale = ExchangeOf(e).scale
    /\ e.shape = ExchangeOf(e).shape
    /\ e.minimum = ExchangeOf(e).minimum
    /\ e.maximum = ExchangeOf(e).maximum

\* C22 as claimed: allocating the rows of an exchange type warns that distributions
\* cannot be allocated exactly when one of the rows has a family that is neither one
\* of the eight standard ones nor lognormal and that same row has an allocation
\* factor other than 1, and the rows of such families keep loc, scale, shape, minimum
\* and maximum.
C22_WarningExactly ==
    Processed =>
        \A type \in {"technosphere", "biosphere"} :
            /\ type \in call.warnings <=>
                   \E e \in AllocatedRowsOf(type) : Unsupported(e) /\ FactorOf(e) # FOne
            /\ \A e \in AllocatedRowsOf(type) : Unsupported(e) => Untouched(e)

\* The row of the exchange table, after the defaults, of stored exchange x.
RowOf(x) == CHOOSE r \in call.exchanges : r.id = x.id

\* The defaults gave exchange x its type and loc as the claim says and left its
\* amount alone.
Defaulted(x) ==
    /\ \E r \in call.exchanges : r.id = x.id
    /\ RowOf(x).uncertainty_type # NA
    /\ RowOf(x).uncertainty_type =
           (IF x.uncertainty_type = NA THEN UndefinedUncertainty_id ELSE x.uncertainty_type)
    /\ RowOf(x).uncertainty_type \in {UndefinedUncertainty_id, NoUncertainty_id}
           /\ x.loc = NaN => RowOf(x).loc = RowOf(x).amount
    /\ x.loc # NaN => RowOf(x).loc = x.loc
    /\ RowOf(x).amount = FromInt(x.amount)

\* C23: after set_default_uncertainty_values every exchange row has a distribution
\* type, the undefined one where it had none; every row of undefined or
\* no-uncertainty type whose loc was unset has its own amount as loc; a loc that was
\* set and every amount are unchanged.
C23_DefaultUncertainty ==
    Processed => \A x \in excs : Defaulted(x)

\* C23 happens: a processed collection with an exchange written without a type, one
\* of no-uncertainty type without a loc, which got the amount 5 as loc, and one of a
\* lognormal distribution written with the loc 1, which kept its loc.
C23_Witness ==
    /\ Processed
    /\ \E x \in excs : x.uncertainty_type = NA /\ RowOf(x).loc = FromInt(x.amount)
    /\ \E x \in excs :
           /\ x.uncertainty_type = NoUncertainty_id /\ x.loc = NaN /\ x.amount = 5
           /\ RowOf(x).loc = FromInt(5)
    /\ \E x \in excs :
           /\ x.uncertainty_type = LognormalUncertainty_id /\ x.loc = FromInt(1)
           /\ x.amount # 1 /\ RowOf(x).loc = FromInt(1)

\* The last call was process_property_errors on a process.
CheckedProcess == call.op = "process_property_errors" /\ call.class = "Process"

\* The messages of the last call about function f.
MessagesAbout(f) == {i \in DOMAIN call.messages : call.messages[i].function_id = f}

\* The one message of the last call about function f.
MessageAbout(f) == call.messages[CHOOSE i \in MessagesAbout(f) : TRUE]

\* A value that is a real number: a float or an int, a bool not counting.
RealNumber(prop) == prop.kind \in {"float", "int"}

AllRecords ==
    \A f \in DOMAIN fns : \A label \in PropLabels :
        property_of(fns[f], label).kind = "record"

\* C25 as claimed: where every function stores each property as a structured record
\* with a numeric amount, database_property_errors returns no messages for the
\* property, and list_available_properties, for the collection and for one process,
\* gives every property label ALL_VALID.
C25_RecordsAllValid ==
    AllRecords =>
        /\ call.op = "database_property_errors" /\ call.label \in PropLabels =>
               call.messages = <<>>
        /\ call.op = "list_available_properties" =>
               /\ DOMAIN call.available = PropLabels
               /\ \A label \in DOMAIN call.available :
                      call.available[label] = "ALL_VALID"

\* The last call saved a stored function without moving it to another process, and
\* the value of the property its process is allocated by, or the side of 0 its
\* substitution factor is on, is not what it was.
SavedWithChange ==
    /\ call.op = "save_function"
    /\ call.result = "None"
    /\ call.process = before[call.function].processor
    /\ \/ property_of(before[call.function], CurrentStrategy(call.process))
             # property_of(fns[call.function], CurrentStrategy(call.process))
       \/ (before[call.function].substitution_factor > 0)
             # (fns[call.function].substitution_factor > 0)

\* Process p is allocated: its functions that are not substituted have factors that
\* sum to 1 within rounding and its substituted functions have the factor 0.
Reallocated(p) ==
    /\ Assigned(fns, Allocatable(p))
    /\ NearOne(FSum(Factors(fns, Allocatable(p))))
    /\ \A f \in DOMAIN fns :
           fns[f].processor = p /\ Substituted(f) => fns[f].allocation_factor = FZero

\* C26 as claimed: after a stored function was saved with a changed value of the
\* property named by its processor's allocation strategy, or with a substitution
\* factor that crossed 0, the processor, if it is multifunctional and its allocation
\* is not skipped, is allocated: the factors of its functions that are not
\* substituted sum to 1 and every substituted function has the factor 0.
C26_ReallocatedOnSave ==
    (/\ SavedWithChange
     /\ multifunctional(excs, call.process)
     /\ ~procs[call.process].skip_allocation) => Reallocated(call.process)

\* C27 as claimed: after any sequence of function creations and production-edge
\* deletions, every process with exactly one function has that function's
\* allocation_factor equal to 1 or unset, so that the exchanges of the process pass
\* to the function unscaled.
C27_SingleFunctionUnscaled ==
    \A p \in DOMAIN procs :
        Len(functions(excs, p)) = 1 =>
            \A f \in DOMAIN fns :
                fns[f].processor = p => fns[f].allocation_factor \in {<<>>, FOne}

\* The last allocation got past the partition and failed: one of the getters raised
\* or the total was zero.
FailedAllocation ==
    /\ Allocating
    /\ call.result \in {"ZeroDivisionError", "KeyError", "AttributeError"}
    /\ \A f \in DOMAIN before :
           before[f].substitution_factor > 0 => before[f].allocation_factor # <<>>

\* C28 as claimed: when generic_allocation fails on a zero total or on a getter
\* error, the stored allocation_factor of every function of the process, the
\* substituted ones included, is what it was before the call.
C28_NoPartialWrite ==
    FailedAllocation =>
        \A f \in DOMAIN fns :
            fns[f].processor = call.node =>
                fns[f].allocation_factor = before[f].allocation_factor

\* C28 amended: when generic_allocation fails on a zero total or on a getter error,
\* the stored factor of every function that is not substituted is what it was before
\* the call, while the reset of the substituted functions has been written: a
\* substituted function that had a positive factor has the factor 0, and any other
\* substituted function has the factor it had or 0.
C28_FailureKeepsAllocatable ==
    FailedAllocation =>
        \A f \in DOMAIN fns :
            fns[f].processor = call.node =>
                /\ ~Substituted(f) =>
                       fns[f].allocation_factor = before[f].allocation_factor
                /\ Substituted(f) =>
                       fns[f].allocation_factor \in {before[f].allocation_factor, FZero}
                /\ Substituted(f) /\ before[f].allocation_factor[1] > 0 =>
                       fns[f].allocation_factor = FZero

\* C28 happens: an allocation by a property that a function lacks failed with
\* KeyError after a substituted function's factor 4 was reset to 0, the factor 4 of
\* a function that is not substituted being left as it was.
C28_Witness ==
    /\ FailedAllocation
    /\ call.result = "KeyError"
    /\ \E f \in DOMAIN fns :
           /\ Substituted(f) /\ before[f].allocation_factor = FromInt(4)
           /\ fns[f].allocation_factor = FZero
    /\ \E f \in DOMAIN fns :
           /\ ~Substituted(f) /\ before[f].allocation_factor = FromInt(4)
           /\ fns[f].allocation_factor = FromInt(4)

\* The last call saved a stored function with another process as its processor.
SwitchedProcessor ==
    /\ call.op = "save_function"
    /\ call.result = "None"
    /\ call.process # before[call.function].processor

\* Process p is consistent with its functions: its stored type is the one of its
\* number of production edges and, if it is multifunctional and its allocation is not
\* skipped, its functions that are not substituted have factors that sum to 1.
ConsistentProcess(p) ==
    /\ procs[p].type = TypeOfCount(Cardinality(production(excs, p)))
    /\ multifunctional(excs, p) /\ ~procs[p].skip_allocation =>
           /\ Assigned(fns, Allocatable(p))
           /\ NearOne(FSum(Factors(fns, Allocatable(p))))

\* C29 as claimed: after a stored function was saved with its processor changed from
\* process A to process B, its processing edge points to B, and A and B both have
\* the stored type of their current number of production edges and, where
\* multifunctional, allocatable factors that sum to 1.
C29_SwitchConsistent ==
    SwitchedProcessor =>
        /\ processing_edge(excs, call.function).output = call.process
        /\ ConsistentProcess(call.process)
        /\ ConsistentProcess(before[call.function].processor)

\* C30: every save or delete of a process, a function or a production edge sets off a
\* chain of nested hook calls that comes to its end: whenever calls are in progress,
\* the outermost of them returns or raises, no hook calling another for ever.
C30_HooksReturn == Running ~> ~Running

\* C30 happens: the deletion of a function has deleted its production edge, which
\* has saved and allocated the process, which is saving a function with its factor:
\* four calls are in progress.
C30_Witness ==
    /\ Len(call.stack) = 4
    /\ call.stack[4].hook = "Function.delete"
    /\ call.stack[3].hook = "MFExchange.delete"
    /\ call.stack[2].hook = "Process.allocate"
    /\ call.stack[1].hook = "Function.save"

====
